---- MODULE Spec2Model ----
(***************************************************************************)
(* Model of the Facebook page automation:                                  *)
(*   backend/automation/selenium_driver.py  FacebookPageGenerator          *)
(*   backend/pages/views.py                 run_task_sync (batch driver)   *)
(* The browser is the environment: every probe of the rendered page is a   *)
(* nondeterministic answer (an element list, a URL, an exception).         *)
(* Durations are in tenths of a second.                                    *)
(***************************************************************************)
EXTENDS Integers, Sequences, FiniteSets, TLC

\* ------------------------------------------------------------------ bounds
MaxStrategies == 2   \* locator strategies in a list given to the resolver
MaxElems == 1        \* elements one strategy can match
NumPages == 2        \* task['num_pages'] of the modelled run
MaxCookies == 2      \* cookie records in a jar or in the session file
NumWorkers == 2      \* tasks started by task_start that run at the same time
MaxCount == 2        \* pages_created and errors of a metrics record read by get_metrics
MaxTime == 3         \* metrics['total_time'] of such a record, in seconds
MaxHits == 2         \* metrics['rate_limit_hits'] up to which calls are followed

\* ------------------------------------------------------- program constants
implicit_wait == 100 \* self.driver.implicitly_wait(10): a find that finds nothing
WizardWindow == 30   \* "while (time.time() - step_start) < 3"
WizardSleep == 3     \* time.sleep(0.3) between two tries of a wizard step
NumWizardSteps == 4  \* wizard_buttons: Next, Next, Skip, Done
max_wait == 600      \* max_wait = 60
AccessWindow == 100  \* share: max_wait = 10 for 'Page access'
AccessSleep == 10    \* share: time.sleep(1)

NoPick == << >>

\* --------------------------------------------------------- error strings
ErrDriver == "Driver not initialized"
ErrNotLoggedIn == "Not logged in to Facebook"
ErrNoNameInput == "Could not find page name input field"
ErrGeneric == "Page creation failed"
ErrNotClicked == "Could not click Create Page button"
ErrNotConfirmed == "Page creation not confirmed - did not redirect to page"
ErrTimeout == "Timeout waiting for page elements"
ErrWebDriver == "Message: webdriver error"
ErrNameError == "name 'creation_urls' is not defined"

\* =================================================================
\* Selector resolution
\* =================================================================
\* What the browser answers for one element of a find_elements() result:
\*   hidden    is_displayed() is False
\*   disabled  is_displayed() is True, is_enabled() is False
\*   ok        displayed and enabled, and a click on it works
\*   blocked   displayed and enabled, but click() raises
\*   stale     is_displayed() raises
ElemKinds == {"hidden", "disabled", "ok", "blocked", "stale"}

SeqsUpTo(S, n) == UNION {[1..k -> S] : k \in 0..n}

\* One strategy's answer: find_elements() raises, or returns a list.
StrategyAnswers == [raises : {TRUE}, elems : {<< >>}] \cup
                   [raises : {FALSE}, elems : SeqsUpTo(ElemKinds, MaxElems)]

\* The render state seen by one resolution: one answer per declared strategy.
Doms == UNION {[1..k -> StrategyAnswers] : k \in 1..MaxStrategies}

\* "if elem.is_displayed() and elem.is_enabled()"
IsUsable(kind) == kind \in {"ok", "blocked"}

\* "for elem in elements: if usable: pick; break": index of the element picked,
\* 0 when the list is exhausted, -1 when a probe raised.
RECURSIVE ScanElems(_, _)
ScanElems(elems, j) ==
    IF j > Len(elems) THEN 0
    ELSE IF elems[j] = "stale" THEN -1
    ELSE IF IsUsable(elems[j]) THEN j
    ELSE ScanElems(elems, j + 1)

\* The same scan where the pick is clicked: "elem.click()" raising leaves the
\* strategy through "except Exception: continue".
RECURSIVE ScanClick(_, _)
ScanClick(elems, j) ==
    IF j > Len(elems) THEN 0
    ELSE IF elems[j] = "stale" THEN -1
    ELSE IF IsUsable(elems[j]) THEN (IF elems[j] = "blocked" THEN -1 ELSE j)
    ELSE ScanClick(elems, j + 1)

RECURSIVE ResolveFrom(_, _)
ResolveFrom(dom, k) ==
    IF k > Len(dom) THEN NoPick
    ELSE IF dom[k].raises THEN ResolveFrom(dom, k + 1)
    ELSE LET j == ScanElems(dom[k].elems, 1)
         IN  IF j > 0 THEN <<k, j>> ELSE ResolveFrom(dom, k + 1)

RECURSIVE ResolveBackFrom(_, _)
ResolveBackFrom(dom, k) ==
    IF k < 1 THEN NoPick
    ELSE IF dom[k].raises THEN ResolveBackFrom(dom, k - 1)
    ELSE LET j == ScanElems(dom[k].elems, 1)
         IN  IF j > 0 THEN <<k, j>> ELSE ResolveBackFrom(dom, k - 1)

\* A resolver that prefers the last declared strategy.
ResolveFirst_LastWins(dom) == ResolveBackFrom(dom, Len(dom))

\* page_name_selectors loop: <<strategy, element>> of the input found, or NoPick.
ResolveFirst(dom) == ResolveFrom(dom, 1)

RECURSIVE ClickFrom(_, _)
ClickFrom(dom, k) ==
    IF k > Len(dom) THEN NoPick
    ELSE IF dom[k].raises THEN ClickFrom(dom, k + 1)
    ELSE LET j == ScanClick(dom[k].elems, 1)
         IN  IF j > 0 THEN <<k, j>> ELSE ClickFrom(dom, k + 1)

\* create_button_selectors loop: <<strategy, element>> clicked, or NoPick.
ClickFirst(dom) == ClickFrom(dom, 1)

\* =================================================================
\* save_cookies, load_cookies
\* =================================================================
\* The 'expiry' of a cookie as get_cookies() gives it: absent, an int, a float.
Expiries == {<<"absent">>, <<"int", 1893456000>>, <<"float", 1893456000, 5>>}

\* Cookies of the page the browser is on.
JarCookies == [name : {"c_user", "xs"}, domain : {"facebook.com"},
               sameSite : {"absent", "Lax"}, expiry : Expiries]

Jars == SeqsUpTo(JarCookies, MaxCookies)

\* json.dump of one value of 'expiry': a number token, with its fraction text.
json_dump_value(v) ==
    IF v[1] = "int" THEN <<"number", v[2], "">>
    ELSE IF v[1] = "float" THEN <<"number", v[2], ".5">>
    ELSE v

\* json.load of one token: a number without fraction is an int, with one a
\* float, a string stays a string.
json_load_value(t) ==
    IF t[1] = "number" THEN (IF t[3] = "" THEN <<"int", t[2]>> ELSE <<"float", t[2], 5>>)
    ELSE t

\* What a record of the session file can hold in 'expiry'.
FileExpiries == {json_dump_value(v) : v \in Expiries} \cup {<<"string", "soon">>}

FileRecords == [name : {"c_user", "xs"}, domain : {"facebook.com", "example.org"},
                sameSite : {"absent", "Lax"}, expiry : FileExpiries]

\* The session file: absent, unparsable, or a JSON list of records.
NoFile == [kind |-> "absent"]
BadFile == [kind |-> "garbage"]
JsonFile(records) == [kind |-> "json", records |-> records]
Files == {NoFile, BadFile} \cup {JsonFile(r) : r \in SeqsUpTo(FileRecords, MaxCookies)}

\* json.dump(cookies, f)
json_dump(cookies) ==
    JsonFile([k \in 1..Len(cookies) |->
                [cookies[k] EXCEPT !.expiry = json_dump_value(@)]])

\* json.load(f) on a file that parses.
json_load(file) ==
    [k \in 1..Len(file.records) |->
        [file.records[k] EXCEPT !.expiry = json_load_value(@)]]

\* int(cookie['expiry']) has a value.
IntDefined(v) == v[1] \in {"int", "float"}

\* int(cookie['expiry'])
IntOf(v) == <<"int", v[2]>>

\* "del cookie['sameSite']" and the coercion of 'expiry'.
Sanitized(c) ==
    [c EXCEPT !.sameSite = "absent",
              !.expiry = IF @[1] = "absent" THEN @ ELSE IntOf(@)]

\* add_cookie(cookie) raises: the cookie is not of the page's domain.
Rejected(c) == c.domain # "facebook.com"

\* A loader that keeps 'sameSite'.
RECURSIVE LoadFrom_KeepSameSite(_, _, _)
LoadFrom_KeepSameSite(cookies, k, added) ==
    IF k > Len(cookies) THEN [ret |-> TRUE, added |-> added]
    ELSE LET c == cookies[k]
         IN  IF c.expiry[1] # "absent" /\ ~IntDefined(c.expiry)
             THEN [ret |-> FALSE, added |-> added]
             ELSE IF Rejected(c)
             THEN LoadFrom_KeepSameSite(cookies, k + 1, added)
             ELSE LoadFrom_KeepSameSite(cookies, k + 1,
                      Append(added, [Sanitized(c) EXCEPT !.sameSite = c.sameSite]))

\* "for cookie in cookies": int() sits outside the per-cookie "try", so its
\* exception leaves the loop through the outer handler; add_cookie sits inside.
RECURSIVE LoadFrom(_, _, _)
LoadFrom(cookies, k, added) ==
    IF k > Len(cookies) THEN [ret |-> TRUE, added |-> added]
    ELSE LET c == cookies[k]
         IN  IF c.expiry[1] # "absent" /\ ~IntDefined(c.expiry)
             THEN [ret |-> FALSE, added |-> added]
             ELSE IF Rejected(c)
             THEN LoadFrom(cookies, k + 1, added)
             ELSE LoadFrom(cookies, k + 1, Append(added, Sanitized(c)))

\* The value returned and the cookies added to the browser, in order.
\* getRaises: driver.get("https://www.facebook.com") raises.
load_cookies(hasDriver, file, getRaises) ==
    IF ~hasDriver THEN [ret |-> FALSE, added |-> << >>]
    ELSE IF file.kind = "absent" THEN [ret |-> FALSE, added |-> << >>]
    ELSE IF file.kind = "garbage" THEN [ret |-> FALSE, added |-> << >>]
    ELSE IF getRaises THEN [ret |-> FALSE, added |-> << >>]
    ELSE LoadFrom(json_load(file), 1, << >>)

\* The step of save_cookies that raises, if one does.
SaveFaults == {"none", "get_cookies", "open", "write"}

\* The value returned and the session file afterwards. open(path, 'w') empties
\* the file before anything is written.
save_cookies(hasDriver, jar, file, fault) ==
    IF ~hasDriver THEN [ret |-> FALSE, file |-> file]
    ELSE IF fault \in {"get_cookies", "open"} THEN [ret |-> FALSE, file |-> file]
    ELSE IF fault = "write" THEN [ret |-> FALSE, file |-> BadFile]
    ELSE [ret |-> TRUE, file |-> json_dump(jar)]

\* =================================================================
\* check_if_logged_in
\* =================================================================
\* The browser's answer to one find_element()/is_displayed() probe:
\*   absent   NoSuchElementException
\*   hidden   found, is_displayed() False
\*   visible  found, is_displayed() True
\*   error    any other exception
ProbeKinds == {"absent", "hidden", "visible", "error"}
NumLoginIndicators == 3
NumLoggedInIndicators == 3

ProbeDoms == [login : [1..NumLoginIndicators -> ProbeKinds],
              auth : [1..NumLoggedInIndicators -> ProbeKinds]]

\* "for selector in indicators: try: find_element; if displayed: hit":
\* what ended the loop and how many indicators were probed.
RECURSIVE ProbeIndicators(_, _)
ProbeIndicators(inds, k) ==
    IF k > Len(inds) THEN [hit |-> "none", n |-> Len(inds)]
    ELSE IF inds[k] = "visible" THEN [hit |-> "visible", n |-> k]
    ELSE IF inds[k] = "error" THEN [hit |-> "error", n |-> k]
    ELSE ProbeIndicators(inds, k + 1)

\* A detector that looks at the authenticated indicators first.
check_if_logged_in_AuthFirst(hasDriver, li, getRaises, dom) ==
    IF ~hasDriver \/ getRaises
    THEN [ret |-> FALSE, logged_in |-> li, loginProbed |-> 0, authProbed |-> 0]
    ELSE LET q == ProbeIndicators(dom.auth, 1)
         IN  IF q.hit = "visible"
             THEN [ret |-> TRUE, logged_in |-> TRUE,
                   loginProbed |-> 0, authProbed |-> q.n]
             ELSE [ret |-> FALSE, logged_in |-> li,
                   loginProbed |-> 0, authProbed |-> q.n]

\* A detector whose default, when nothing matches, is "authenticated".
check_if_logged_in_DefaultTrue(hasDriver, li, getRaises, dom) ==
    IF ~hasDriver \/ getRaises
    THEN [ret |-> FALSE, logged_in |-> li, loginProbed |-> 0, authProbed |-> 0]
    ELSE LET p == ProbeIndicators(dom.login, 1)
         IN  IF p.hit # "none"
             THEN [ret |-> FALSE, logged_in |-> li,
                   loginProbed |-> p.n, authProbed |-> 0]
             ELSE LET q == ProbeIndicators(dom.auth, 1)
                  IN  IF q.hit # "error"
                      THEN [ret |-> TRUE, logged_in |-> TRUE,
                            loginProbed |-> p.n, authProbed |-> q.n]
                      ELSE [ret |-> FALSE, logged_in |-> li,
                            loginProbed |-> p.n, authProbed |-> q.n]

\* The value returned, self.logged_in afterwards, and the number of probes made
\* of each indicator list. li is self.logged_in before the call.
check_if_logged_in(hasDriver, li, getRaises, dom) ==
    IF ~hasDriver
    THEN [ret |-> FALSE, logged_in |-> li, loginProbed |-> 0, authProbed |-> 0]
    ELSE IF getRaises
    THEN [ret |-> FALSE, logged_in |-> li, loginProbed |-> 0, authProbed |-> 0]
    ELSE LET p == ProbeIndicators(dom.login, 1)
         IN  IF p.hit # "none"
             THEN [ret |-> FALSE, logged_in |-> li,
                   loginProbed |-> p.n, authProbed |-> 0]
             ELSE LET q == ProbeIndicators(dom.auth, 1)
                  IN  IF q.hit = "visible"
                      THEN [ret |-> TRUE, logged_in |-> TRUE,
                            loginProbed |-> p.n, authProbed |-> q.n]
                      ELSE [ret |-> FALSE, logged_in |-> li,
                            loginProbed |-> p.n, authProbed |-> q.n]

\* =================================================================
\* detect_rate_limit
\* =================================================================
\* Text is a sequence of one-character strings.
ascii_lowercase ==
    <<"a", "b", "c", "d", "e", "f", "g", "h", "i", "j", "k", "l", "m", "n",
    "o", "p", "q", "r", "s", "t", "u", "v", "w", "x", "y", "z">>
ascii_uppercase ==
    <<"A", "B", "C", "D", "E", "F", "G", "H", "I", "J", "K", "L", "M", "N",
    "O", "P", "Q", "R", "S", "T", "U", "V", "W", "X", "Y", "Z">>

Letters == 1..Len(ascii_lowercase)

\* str.lower() on one character.
ToLower(c) ==
    IF \E k \in Letters : ascii_uppercase[k] = c
    THEN ascii_lowercase[CHOOSE k \in Letters : ascii_uppercase[k] = c]
    ELSE c

\* A page text taken as it is.
lower_AsIs(text) == text

\* ".text.lower()"
lower(text) == [k \in 1..Len(text) |-> ToLower(text[k])]

\* "phrase in page_text"
In(phrase, page_text) ==
    \E o \in 0..(Len(page_text) - Len(phrase)) :
        SubSeq(page_text, o + 1, o + Len(phrase)) = phrase

rate_limit_phrases == <<
    <<"t", "r", "y", " ", "a", "g", "a", "i", "n", " ", "l", "a", "t", "e",
    "r">>,
    <<"y", "o", "u", "'", "r", "e", " ", "t", "e", "m", "p", "o", "r", "a",
    "r", "i", "l", "y", " ", "b", "l", "o", "c", "k", "e", "d">>,
    <<"t", "e", "m", "p", "o", "r", "a", "r", "i", "l", "y", " ", "b", "l",
    "o", "c", "k", "e", "d">>,
    <<"r", "a", "t", "e", " ", "l", "i", "m", "i", "t">>,
    <<"t", "o", "o", " ", "m", "a", "n", "y">>,
    <<"s", "l", "o", "w", " ", "d", "o", "w", "n">>,
    <<"s", "o", "m", "e", "t", "h", "i", "n", "g", " ", "w", "e", "n", "t",
    " ", "w", "r", "o", "n", "g">>,
    <<"c", "o", "u", "l", "d", "n", "'", "t", " ", "c", "r", "e", "a", "t",
    "e">>,
    <<"c", "a", "n", "'", "t", " ", "c", "r", "e", "a", "t", "e">>,
    <<"p", "l", "e", "a", "s", "e", " ", "t", "r", "y", " ", "a", "g", "a",
    "i", "n">>,
    <<"a", "c", "t", "i", "o", "n", " ", "b", "l", "o", "c", "k", "e", "d">>,
    <<"w", "e", " ", "l", "i", "m", "i", "t", " ", "h", "o", "w", " ", "o",
    "f", "t", "e", "n">>
    >>

\* "for phrase in rate_limit_phrases: if phrase in page_text": the index of the
\* first phrase found, 0 when the list is exhausted.
RECURSIVE FirstPhrase(_, _)
FirstPhrase(page_text, k) ==
    IF k > Len(rate_limit_phrases) THEN 0
    ELSE IF In(rate_limit_phrases[k], page_text) THEN k
    ELSE FirstPhrase(page_text, k + 1)

\* A detector whose flag follows the last page seen.
detect_rate_limit_Unlatched(hasDriver, raises, text, rl, hits) ==
    IF ~hasDriver \/ raises
    THEN [ret |-> FALSE, rate_limited |-> rl, hits |-> hits]
    ELSE IF FirstPhrase(lower(text), 1) > 0
    THEN [ret |-> TRUE, rate_limited |-> TRUE, hits |-> hits + 1]
    ELSE [ret |-> FALSE, rate_limited |-> FALSE, hits |-> hits]

\* text: the body text of the page; raises: find_element or .text raises.
\* The value returned, self.rate_limited and metrics['rate_limit_hits'] afterwards.
detect_rate_limit(hasDriver, raises, text, rl, hits) ==
    IF ~hasDriver \/ raises
    THEN [ret |-> FALSE, rate_limited |-> rl, hits |-> hits]
    ELSE IF FirstPhrase(lower(text), 1) > 0
    THEN [ret |-> TRUE, rate_limited |-> TRUE, hits |-> hits + 1]
    ELSE [ret |-> FALSE, rate_limited |-> rl, hits |-> hits]

\* ---- body texts a page can show
ToUpper(c) ==
    IF \E k \in Letters : ascii_lowercase[k] = c
    THEN ascii_uppercase[CHOOSE k \in Letters : ascii_lowercase[k] = c]
    ELSE c

Shout(text) == [k \in 1..Len(text) |-> ToUpper(text[k])]
Capitalised(text) == [k \in 1..Len(text) |-> IF k = 1 THEN ToUpper(text[k]) ELSE text[k]]
\* The phrase written with another apostrophe than the ASCII one.
Curly(text) == [k \in 1..Len(text) |-> IF text[k] = "'" THEN "^" ELSE text[k]]
Clipped(text) == SubSeq(text, 1, Len(text) - 1)

Phrases == {rate_limit_phrases[k] : k \in 1..Len(rate_limit_phrases)}

\* What the page says: a phrase in some case, something close to a phrase, or
\* nothing of the kind.
Cores ==
    Phrases \cup {Shout(p) : p \in Phrases} \cup {Capitalised(p) : p \in Phrases}
    \cup {Clipped(p) : p \in Phrases} \cup {Curly(p) : p \in Phrases}
    \cup {<< >>, <<"C", "r", "e", "a", "t", "e", " ", "a", " ", "P", "a", "g", "e">>}

Before == <<"S", "o", "r", "r", "y", ",", " ">>
After == <<".", " ", "O", "K">>

\* The core alone, or in the middle of a sentence.
PageTexts == Cores \cup {Before \o c \o After : c \in Cores}

\* =================================================================
\* URLs the browser can report (driver.current_url)
\* =================================================================
UrlCreation == "https://www.facebook.com/pages/creation/"
UrlProfileId == "https://www.facebook.com/profile.php?id=61584296746538"
UrlNumeric == "https://www.facebook.com/61584296746538"
UrlNamed == "https://www.facebook.com/SwissBeauty"
UrlNamedQuery == "https://www.facebook.com/SwissBeauty/?sk=about"
Urls == {UrlCreation, UrlProfileId, UrlNumeric, UrlNamed, UrlNamedQuery}

\* The characters of the URLs above.
UrlText(u) ==
    IF u = UrlCreation THEN
        <<"h", "t", "t", "p", "s", ":", "/", "/", "w", "w", "w", ".", "f",
        "a", "c", "e", "b", "o", "o", "k", ".", "c", "o", "m", "/", "p",
        "a", "g", "e", "s", "/", "c", "r", "e", "a", "t", "i", "o", "n",
        "/">>
    ELSE IF u = UrlProfileId THEN
        <<"h", "t", "t", "p", "s", ":", "/", "/", "w", "w", "w", ".", "f",
        "a", "c", "e", "b", "o", "o", "k", ".", "c", "o", "m", "/", "p",
        "r", "o", "f", "i", "l", "e", ".", "p", "h", "p", "?", "i", "d",
        "=", "6", "1", "5", "8", "4", "2", "9", "6", "7", "4", "6", "5",
        "3", "8">>
    ELSE IF u = UrlNumeric THEN
        <<"h", "t", "t", "p", "s", ":", "/", "/", "w", "w", "w", ".", "f",
        "a", "c", "e", "b", "o", "o", "k", ".", "c", "o", "m", "/", "6",
        "1", "5", "8", "4", "2", "9", "6", "7", "4", "6", "5", "3", "8">>
    ELSE IF u = UrlNamed THEN
        <<"h", "t", "t", "p", "s", ":", "/", "/", "w", "w", "w", ".", "f",
        "a", "c", "e", "b", "o", "o", "k", ".", "c", "o", "m", "/", "S",
        "w", "i", "s", "s", "B", "e", "a", "u", "t", "y">>
    ELSE
        <<"h", "t", "t", "p", "s", ":", "/", "/", "w", "w", "w", ".", "f",
        "a", "c", "e", "b", "o", "o", "k", ".", "c", "o", "m", "/", "S",
        "w", "i", "s", "s", "B", "e", "a", "u", "t", "y", "/", "?", "s",
        "k", "=", "a", "b", "o", "u", "t">>

Digits == {"0", "1", "2", "3", "4", "5", "6", "7", "8", "9"}

\* (\d+) at position k of text: the longest run of digits that starts there.
RECURSIVE DigitRun(_, _)
DigitRun(text, k) ==
    IF k <= Len(text) /\ text[k] \in Digits
    THEN <<text[k]>> \o DigitRun(text, k + 1)
    ELSE << >>

\* Offsets at which prefix is followed by a digit.
MatchesAt(prefix, text) ==
    {o \in 0..(Len(text) - Len(prefix)) :
        /\ SubSeq(text, o + 1, o + Len(prefix)) = prefix
        /\ DigitRun(text, o + Len(prefix) + 1) # << >>}

\* re.search(prefix + r'(\d+)', text): group(1) of the leftmost match, or the
\* empty sequence when nothing matches.
Search(prefix, text) ==
    LET at == MatchesAt(prefix, text)
    IN  IF at = {} THEN << >>
        ELSE LET o == CHOOSE o \in at : \A p \in at : o <= p
             IN  DigitRun(text, o + Len(prefix) + 1)

\* current_url.rstrip('/')
RECURSIVE rstrip(_)
rstrip(text) ==
    IF text # << >> /\ text[Len(text)] = "/"
    THEN rstrip(SubSeq(text, 1, Len(text) - 1))
    ELSE text

\* text.split(sep)[-1]
RECURSIVE LastPart(_, _)
LastPart(text, sep) ==
    IF \E k \in 1..Len(text) : text[k] = sep
    THEN LastPart(Tail(text), sep)
    ELSE text

\* text.split(sep)[0]
RECURSIVE FirstPart(_, _)
FirstPart(text, sep) ==
    IF text = << >> \/ Head(text) = sep THEN << >>
    ELSE <<Head(text)>> \o FirstPart(Tail(text), sep)

ProfileIdParam ==
    <<"p", "r", "o", "f", "i", "l", "e", ".", "p", "h", "p", "?", "i", "d",
    "=">>
IdParam == <<"i", "d", "=">>
HostSlash ==
    <<"f", "a", "c", "e", "b", "o", "o", "k", ".", "c", "o", "m", "/">>

\* '"profile.php?id=" in current_url'
HasProfileIdParam(u) == In(ProfileIdParam, UrlText(u))

\* "re.search(r'facebook\.com/\d+', current_url)"
HasNumericPath(u) == Search(HostSlash, UrlText(u)) # << >>

\* STEP 10 on the characters of current_url: the if / elif / elif / else chain.
\* A branch is chosen by its test; inside it page_id stays "" when the regular
\* expression of the branch does not match.
extract_page_id(current_url) ==
    IF In(ProfileIdParam, current_url) THEN Search(ProfileIdParam, current_url)
    ELSE IF In(IdParam, current_url) THEN Search(IdParam, current_url)
    ELSE IF Search(HostSlash, current_url) # << >>
    THEN Search(HostSlash, current_url)
    ELSE FirstPart(LastPart(rstrip(current_url), "/"), "?")

\* The identifiers the URLs above give, as the strings a PageResult carries.
IdString(chars) ==
    IF chars =
        <<"6", "1", "5", "8", "4", "2", "9", "6", "7", "4", "6", "5", "3",
        "8">>
    THEN "61584296746538"
    ELSE IF chars =
        <<"S", "w", "i", "s", "s", "B", "e", "a", "u", "t", "y">>
    THEN "SwissBeauty"
    ELSE IF chars =
        <<"c", "r", "e", "a", "t", "i", "o", "n">>
    THEN "creation"
    ELSE ""

\* STEP 10: the identifier extracted from the URL.
ExtractPageId(u) == IdString(extract_page_id(UrlText(u)))

\* URLs by their parts: the path segments after the host, a trailing slash or
\* none, and one query parameter or none.
UrlPaths == {<<<<"p", "r", "o", "f", "i", "l", "e", ".", "p", "h", "p">>>>, <<<<"1", "0", "0", "0", "6", "4">>>>, <<<<"S", "w", "i", "s", "s", "B", "e", "a", "u", "t", "y">>>>,
             <<<<"p", "a", "g", "e", "s">>, <<"c", "r", "e", "a", "t", "i", "o", "n">>>>}
NoQuery == [name |-> << >>, value |-> << >>]
UrlQueries ==
    {NoQuery,
     [name |-> <<"i", "d">>, value |-> <<"1", "0", "0", "0", "6", "4">>],
     [name |-> <<"e", "i", "d">>, value |-> <<"A", "R", "B">>],
     [name |-> <<"s", "k">>, value |-> <<"a", "b", "o", "u", "t">>]}
UrlParts == [path : UrlPaths, slash : BOOLEAN, query : UrlQueries]

RECURSIVE Join(_)
Join(segments) ==
    IF Len(segments) = 1 THEN segments[1]
    ELSE segments[1] \o <<"/">> \o Join(Tail(segments))

\* The characters of the URL the browser reports for these parts.
UrlOf(parts) ==
    <<"h", "t", "t", "p", "s", ":", "/", "/", "w", "w", "w", ".">> \o HostSlash
    \o Join(parts.path)
    \o (IF parts.slash THEN <<"/">> ELSE << >>)
    \o (IF parts.query = NoQuery THEN << >>
        ELSE <<"?">> \o parts.query.name \o <<"=">> \o parts.query.value)

\* =================================================================
\* Results and exception handlers of a creation attempt
\* =================================================================
NoResult == [none |-> TRUE]

PageResult(ok, id, url, err) ==
    [success |-> ok, page_id |-> id, page_url |-> url, error |-> err]

\* Exceptions a browser call can raise; NameError comes from the code itself.
BrowserExc == {"timeout", "webdriver"}

\* str(e)
ExcText(kind) ==
    IF kind = "name_error" THEN ErrNameError
    ELSE IF kind = "timeout" THEN "Message: timeout"
    ELSE ErrWebDriver

\* A handler that reports the exception as a success.
ExceptResult_Swallow(kind) == PageResult(TRUE, "", "", "")

\* "except TimeoutException" / "except Exception" of _create_real_facebook_page.
ExceptResult(kind) ==
    IF kind = "timeout" THEN PageResult(FALSE, "", "", ErrTimeout)
    ELSE PageResult(FALSE, "", "", ExcText(kind))

\* A decision that accepts either flag.
FinalDecision_Either(clicked, found, id, url) ==
    IF clicked \/ found THEN PageResult(TRUE, id, url, "")
    ELSE PageResult(FALSE, "", "", ErrNotClicked)

\* "if create_clicked and page_url_found: ... else: ..." (the final decision).
FinalDecision(clicked, found, id, url) ==
    IF clicked /\ found THEN PageResult(TRUE, id, url, "")
    ELSE IF ~clicked THEN PageResult(FALSE, "", "", ErrNotClicked)
    ELSE IF ~found THEN PageResult(FALSE, "", "", ErrNotConfirmed)
    ELSE PageResult(FALSE, "", "", ErrGeneric)

\* a / b of two numbers, kept as the fraction; b = 0 is ZeroDivisionError.
Quotient(a, b) == [num |-> a, den |-> b]
Times(q, n) == [num |-> q.num * n, den |-> q.den]
Zero == [num |-> 0, den |-> 1]
Raises(q) == q.den = 0

\* The metrics records get_metrics is applied to.
MetricsRecords ==
    [pages_created : 0..MaxCount, total_time : 0..MaxTime, errors : 0..MaxCount,
     rate_limit_hits : 0..1]

\* A snapshot computed without the guards on the denominators.
get_metrics_Unguarded(m) ==
    LET avg_time == Quotient(m.total_time, m.pages_created)
        success_rate ==
            Times(Quotient(m.pages_created, m.pages_created + m.errors), 100)
    IN  [raises |-> Raises(avg_time) \/ Raises(success_rate),
         metrics |-> m,
         snapshot |-> [pages_created |-> m.pages_created,
                       total_time |-> m.total_time, errors |-> m.errors,
                       rate_limit_hits |-> m.rate_limit_hits,
                       avg_time_per_page |-> avg_time,
                       success_rate |-> success_rate]]

\* get_metrics: "avg_time = total_time / pages_created if pages_created > 0
\* else 0", then a new dict {**self.metrics, 'avg_time_per_page': ...,
\* 'success_rate': pages_created / (pages_created + errors) * 100 if the sum is
\* > 0 else 0}. metrics is self.metrics after the call.
get_metrics(m) ==
    LET avg_time == IF m.pages_created > 0
                    THEN Quotient(m.total_time, m.pages_created) ELSE Zero
        success_rate ==
            IF (m.pages_created + m.errors) > 0
            THEN Times(Quotient(m.pages_created, m.pages_created + m.errors), 100)
            ELSE Zero
    IN  [raises |-> Raises(avg_time) \/ Raises(success_rate),
         metrics |-> m,
         snapshot |-> [pages_created |-> m.pages_created,
                       total_time |-> m.total_time, errors |-> m.errors,
                       rate_limit_hits |-> m.rate_limit_hits,
                       avg_time_per_page |-> avg_time,
                       success_rate |-> success_rate]]

\* create_pages_task, after its loop: "final_status = 'completed' if
\* results['failed'] == 0 else 'completed'", then "if results['success'] == 0
\* and results['failed'] > 0: final_status = 'failed'".
final_status(success, failed) ==
    IF success = 0 /\ failed > 0 THEN "failed" ELSE "completed"

\* =================================================================
\* State
\* =================================================================
VARIABLES
    cfg,            \* settings and task fields read at the start of the run
    task,           \* the task record of the store: status and counters
    cookie_file,    \* the session file at cookies_path
    pc,             \* where the worker thread is
    i,              \* loop index of run_task_sync
    driver,         \* self.driver is not None
    logged_in,      \* self.logged_in
    rate_limited,   \* self.rate_limited
    metrics,        \* self.metrics
    login_success,  \* value returned by login_facebook
    lg,             \* what the login_facebook call of the run did
    att,            \* locals of the running creation attempt
    result,         \* PageResult returned by the last create_facebook_page
    sh,             \* locals of the running share attempt
    invite_result,  \* InviteResult returned by the last share_page_to_profile
    calls,          \* calls made and results returned, per operation
    fnOp, fnArg, fnRet,  \* a function applied on its own: which, input, output
    workers,        \* the worker threads of the process, when several run
    requests        \* the task_start and task_cancel requests being served

runVars == <<cfg, task, cookie_file, pc, i, driver, logged_in, rate_limited,
             metrics, login_success, lg, att, result, sh, invite_result, calls>>
fnVars == <<fnOp, fnArg, fnRet>>
vars == <<runVars, fnVars, workers, requests>>

Stages == {"navigate", "form_wait", "resolve_name", "fill_name", "category",
           "description", "create_click", "wizard", "await_confirmation",
           "extract_id", "decide"}

\* Locals of _create_real_facebook_page at entry.
NewAttempt ==
    [page_name_input |-> FALSE, create_clicked |-> FALSE,
     page_url_found |-> FALSE, step_num |-> 0, step_elapsed |-> 0,
     wizard_clicks |-> 0, wait_elapsed |-> 0, polls |-> 0,
     current_url |-> UrlCreation, page_id |-> "", exc |-> "none",
     visited |-> {}, hostile |-> FALSE, category_input |-> FALSE,
     desc_input |-> "none"]

NewShare ==
    [step |-> 0, access_elapsed |-> 0, submit_clicked |-> FALSE,
     person_input |-> FALSE, attempted |-> {}, exc |-> "none"]

\* FacebookPageGenerator.__init__
InitMetrics == [pages_created |-> 0, errors |-> 0, rate_limit_hits |-> 0]

\* login_facebook before it is called: no read or write of the session file, no
\* credential entry, no result. url and authenticated are what the browser
\* shows after the form was submitted.
NewLogin ==
    [reads |-> 0, writes |-> 0, credentials |-> FALSE, restored |-> FALSE,
     url |-> "none", authenticated |-> FALSE, ret |-> "none"]

\* The record of a task in the store, as task_create leaves it but for the
\* status.
NewTask(st) ==
    [status |-> st, error_message |-> "", pages_created |-> 0, pages_failed |-> 0,
     shares_sent |-> 0, shares_failed |-> 0]

\* A worker thread and its generator before the first step.
InitThread ==
    /\ pc = "r_start"
    /\ i = 1
    /\ driver = FALSE
    /\ logged_in = FALSE
    /\ rate_limited = FALSE
    /\ metrics = InitMetrics
    /\ login_success = FALSE
    /\ lg = NewLogin
    /\ att = NewAttempt
    /\ result = NoResult
    /\ sh = NewShare
    /\ invite_result = NoResult
    /\ calls = [create |-> 0, create_ret |-> 0, share |-> 0, share_ret |-> 0]

\* task_start has set the task 'running' and started the thread.
InitWorker == task = NewTask("running") /\ InitThread

InitFnIdle ==
    /\ fnOp = "none"
    /\ fnArg = << >>
    /\ fnRet = << >>

\* One worker thread alone in the process.
OneWorker == workers = << >> /\ requests = << >>

\* A run of run_task_sync: its settings, its task, and the session file that
\* an earlier run may have left.
InitRun ==
    /\ cfg \in [test_mode : BOOLEAN, creds : BOOLEAN, share : BOOLEAN,
                num_pages : 1..NumPages]
    /\ cookie_file \in {"absent", "present"}
    /\ InitWorker

Init == InitRun /\ InitFnIdle /\ OneWorker

\* =================================================================
\* create_facebook_page
\* =================================================================
\* The render states a stage of the workflow can meet: one strategy's answer is
\* enough to produce every outcome of a resolution (found, not found).
SiteDoms == [1..1 -> [raises : {TRUE}, elems : {<< >>}] \cup
                     [raises : {FALSE}, elems : SeqsUpTo(ElemKinds, 1)]]


createFrame == <<cfg, task, cookie_file, i, driver, logged_in, rate_limited,
                 login_success, lg, sh, invite_result, fnOp, fnArg, fnRet, workers, requests>>

Mark(a, stage) == [a EXCEPT !.visited = @ \cup {stage}]

\* The attempt goes on to its next stage.
Continue(a, next) ==
    /\ att' = a
    /\ pc' = next
    /\ UNCHANGED <<metrics, result, calls>>

\* The attempt returns res to the batch driver.
Return(a, res, m) ==
    /\ att' = a
    /\ result' = res
    /\ metrics' = m
    /\ calls' = [calls EXCEPT !.create_ret = @ + 1]
    /\ pc' = "c_return"

\* An exception leaves the try block of _create_real_facebook_page.
Fail(a, kind) ==
    Return([a EXCEPT !.exc = kind], ExceptResult(kind),
           [metrics EXCEPT !.errors = @ + 1])

\* create_facebook_page, and the logged-in check of _create_real_facebook_page.
C_Call ==
    /\ pc = "c_call"
    /\ IF ~driver
       THEN Return(att, PageResult(FALSE, "", "", ErrDriver), metrics)
       ELSE IF cfg.test_mode
       THEN Continue(att, "t_run")
       ELSE IF ~logged_in
       THEN Return(att, PageResult(FALSE, "", "", ErrNotLoggedIn), metrics)
       ELSE Continue(att, "c_navigate")
    /\ UNCHANGED createFrame

\* uuid.uuid4().hex[:12]
uuid_hex == {"0123456789ab", "fedcba987654"}

\* f"test_{uuid.uuid4().hex[:12]}"
TestPageId(hex) ==
    IF hex = "0123456789ab" THEN "test_0123456789ab" ELSE "test_fedcba987654"

\* f"https://facebook.com/{page_id}"
TestPageUrl(page_id) ==
    IF page_id = "test_0123456789ab"
    THEN "https://facebook.com/test_0123456789ab"
    ELSE IF page_id = "test_fedcba987654"
    THEN "https://facebook.com/test_fedcba987654"
    ELSE "https://facebook.com/"

\* A simulated attempt whose exception is not counted in the metrics.
T_Run_Uncounted ==
    /\ pc = "t_run"
    /\ \/ \E hex \in uuid_hex :
            Return(att, PageResult(TRUE, TestPageId(hex),
                                   TestPageUrl(TestPageId(hex)), ""),
                   [metrics EXCEPT !.pages_created = @ + 1])
       \/ \E k \in BrowserExc :
            Return([att EXCEPT !.exc = k], PageResult(FALSE, "", "", ExcText(k)),
                   metrics)
    /\ UNCHANGED createFrame

\* _create_test_page: the httpbin form is loaded, filled and submitted with the
\* browser; any exception of that goes to "except Exception".
T_Run ==
    /\ pc = "t_run"
    /\ \/ \E hex \in uuid_hex :
            Return(att, PageResult(TRUE, TestPageId(hex),
                                   TestPageUrl(TestPageId(hex)), ""),
                   [metrics EXCEPT !.pages_created = @ + 1])
       \/ \E k \in BrowserExc :
            Return([att EXCEPT !.exc = k], PageResult(FALSE, "", "", ExcText(k)),
                   [metrics EXCEPT !.errors = @ + 1])
    /\ UNCHANGED createFrame

\* STEP 1-3: driver.get(FACEBOOK_PAGES_URL), the optional navigation buttons.
C_Navigate ==
    /\ pc = "c_navigate"
    /\ \/ \E k \in BrowserExc : Fail(Mark(att, "navigate"), k)
       \/ \E h \in BOOLEAN :
            Continue([Mark(att, "navigate") EXCEPT !.hostile = h], "c_form")
    /\ UNCHANGED createFrame

\* STEP 3.5: WebDriverWait(5) for the form; its TimeoutException is caught.
C_FormWait ==
    /\ pc = "c_form"
    /\ \/ Fail(Mark(att, "form_wait"), "webdriver")
       \/ Continue(Mark(att, "form_wait"), "c_resolve_name")
    /\ UNCHANGED createFrame

\* STEP 4: page_name_selectors; without an input the attempt ends here.
C_ResolveName ==
    /\ pc = "c_resolve_name"
    /\ \E dom \in SiteDoms :
         LET pick == ResolveFirst(dom)
             a == [Mark(att, "resolve_name") EXCEPT
                     !.page_name_input = (pick # NoPick)]
         IN  IF pick = NoPick
             THEN \/ Fail(a, "webdriver")    \* the debug listing of inputs raises
                  \/ Return(a, PageResult(FALSE, "", "", ErrNoNameInput), metrics)
             ELSE Continue(a, "c_fill_name")
    /\ UNCHANGED createFrame

\* STEP 5: clear() and send_keys(page_name).
C_FillName ==
    /\ pc = "c_fill_name"
    /\ \/ Fail(Mark(att, "fill_name"), "webdriver")
       \/ Continue(Mark(att, "fill_name"), "c_category")
    /\ UNCHANGED createFrame

\* A category step that gives the attempt up when no input is found.
C_Category_Required ==
    /\ pc = "c_category"
    /\ \E dom \in SiteDoms :
         LET a == [Mark(att, "category") EXCEPT
                     !.category_input = (ResolveFirst(dom) # NoPick)]
         IN  IF a.category_input
             THEN \/ Fail(a, "webdriver")
                  \/ Continue(a, "c_description")
             ELSE Fail(a, "webdriver")
    /\ UNCHANGED createFrame

\* STEP 6: category_selectors inside "except Exception: continue"; click() and
\* send_keys on the input found are unguarded and can raise; no input found is
\* a warning.
C_Category ==
    /\ pc = "c_category"
    /\ \E dom \in SiteDoms :
         LET a == [Mark(att, "category") EXCEPT
                     !.category_input = (ResolveFirst(dom) # NoPick)]
         IN  IF a.category_input
             THEN \/ Fail(a, "webdriver")
                  \/ Continue(a, "c_description")
             ELSE Continue(a, "c_description")
    /\ UNCHANGED createFrame

\* What STEP 7 meets: no description asked for ("if description:" is false),
\* no field, a field whose clear() or send_keys raises, a field that is filled.
DescriptionFields == {"none", "missing", "unusable", "filled"}

\* STEP 7: the description, wholly inside "try ... except Exception".
C_Description ==
    /\ pc = "c_description"
    /\ \E field \in DescriptionFields :
         Continue([Mark(att, "description") EXCEPT !.desc_input = field],
                  "c_create")
    /\ UNCHANGED createFrame

\* STEP 8: create_button_selectors; a miss is only logged. Nothing after
\* STEP 7 reads category_input or desc_input: they are dropped here.
C_ClickCreate ==
    /\ pc = "c_create"
    /\ \E dom \in SiteDoms, h \in BOOLEAN :
         LET clicked == ClickFirst(dom) # NoPick
             a == [Mark(att, "create_click") EXCEPT
                     !.category_input = FALSE, !.desc_input = "none",
                     !.create_clicked = clicked,
                     !.hostile = @ \/ (clicked /\ h),
                     !.step_num = 1, !.step_elapsed = 0]
         IN  IF clicked
             THEN Continue(a, "c_wizard")
             ELSE \/ Fail(a, "webdriver")   \* the debug listing of buttons raises
                  \/ Continue(a, "c_wizard")
    /\ UNCHANGED createFrame

\* A wizard that submits the form again after its last button.
NextWizardStep_Resubmit(a) ==
    IF a.step_num = NumWizardSteps
    THEN Continue([a EXCEPT !.step_elapsed = 0],
                  IF a.wizard_clicks = NumWizardSteps THEN "c_create" ELSE "c_wait_begin")
    ELSE Continue([a EXCEPT !.step_num = @ + 1, !.step_elapsed = 0], "c_wizard")

\* The wizard moves to its next button, or on to the confirmation wait.
NextWizardStep(a) ==
    IF a.step_num = NumWizardSteps
    THEN Continue([a EXCEPT !.step_elapsed = 0], "c_wait_begin")
    ELSE Continue([a EXCEPT !.step_num = @ + 1, !.step_elapsed = 0], "c_wizard")

\* A clock restarted inside the loop: the elapsed time never reaches the window.
Elapse_Restarted(elapsed, d) ==
    IF elapsed + d >= WizardWindow THEN 0 ELSE elapsed + d

\* "time.time() - step_start" after a round of duration d.
Elapse(elapsed, d) == elapsed + d

\* STEP 9: one turn of "while (time.time() - step_start) < 3" for one button.
\* A turn without a click lasts the sleep, plus the implicit wait of each of the
\* two find_elements when the button is not in the page at all.
C_WizardTry ==
    /\ pc = "c_wizard"
    /\ att.step_elapsed < WizardWindow
    /\ \E dom \in SiteDoms :
         IF ClickFirst(dom) # NoPick
         THEN NextWizardStep([Mark(att, "wizard") EXCEPT !.wizard_clicks = @ + 1])
         ELSE \E d \in {WizardSleep, WizardSleep + 2 * implicit_wait} :
                Continue([Mark(att, "wizard") EXCEPT
                            !.step_elapsed = Elapse(@, d)],
                         "c_wizard")
    /\ UNCHANGED createFrame

\* STEP 9: the 3 seconds of a button are over: "not found, continuing...".
C_WizardMiss ==
    /\ pc = "c_wizard"
    /\ att.step_elapsed >= WizardWindow
    /\ NextWizardStep(att)
    /\ UNCHANGED createFrame

\* The three dashboard_selectors probed in order inside "except Exception: pass":
\* whether a displayed 'Professional dashboard' element was met.
DashboardSeen ==
    {ProbeIndicators(inds, 1).hit = "visible" : inds \in [1..3 -> ProbeKinds]}

\* STEP 9.5, before the loop: start_wait and the first read of current_url,
\* whose value is only printed (the loop and STEP 10 read it again). The
\* code puts no bound on the time that read takes.
C_WaitBegin ==
    /\ pc = "c_wait_begin"
    /\ \/ \E k \in BrowserExc : Fail(Mark(att, "await_confirmation"), k)
       \/ \E e \in {0, max_wait} :
            Continue([Mark(att, "await_confirmation") EXCEPT
                        !.wait_elapsed = e, !.page_url_found = FALSE],
                     "c_wait")
    /\ UNCHANGED createFrame

\* STEP 9.5: one turn of "while (time.time() - start_wait) < max_wait".
\* The dashboard probe sits in "try ... except Exception: pass"; the third
\* indicator reads creation_urls, a name bound nowhere, so reaching line 1014
\* raises NameError and the sleep after it never runs. The URL read here is
\* used by the tests of this turn only: STEP 10 reads current_url again.
C_WaitPoll ==
    /\ pc = "c_wait"
    /\ IF att.wait_elapsed >= max_wait
       THEN Continue(att, "c_extract")
       ELSE \/ \E k \in BrowserExc : Fail(att, k)
            \/ \E u \in Urls, dashboard \in DashboardSeen :
                 LET a == [att EXCEPT !.polls = @ + 1]
                 IN  IF dashboard
                     THEN Continue([a EXCEPT !.page_url_found = TRUE], "c_extract")
                     ELSE IF HasProfileIdParam(u) \/ HasNumericPath(u)
                     THEN Continue([a EXCEPT !.page_url_found = TRUE], "c_extract")
                     ELSE Fail(a, "name_error")
    /\ UNCHANGED createFrame

\* STEP 10: read current_url again and extract the identifier.
C_Extract ==
    /\ pc = "c_extract"
    /\ \/ \E k \in BrowserExc : Fail(Mark(att, "extract_id"), k)
       \/ \E u \in Urls :
            Continue([Mark(att, "extract_id") EXCEPT
                        !.current_url = u, !.page_id = ExtractPageId(u)],
                     "c_decide")
    /\ UNCHANGED createFrame

\* The final decision and the metrics it counts.
C_Decide ==
    /\ pc = "c_decide"
    /\ LET r == FinalDecision(att.create_clicked, att.page_url_found,
                              att.page_id, att.current_url)
       IN  Return(Mark(att, "decide"), r,
                  IF r.success
                  THEN [metrics EXCEPT !.pages_created = @ + 1]
                  ELSE [metrics EXCEPT !.errors = @ + 1])
    /\ UNCHANGED createFrame

CreateStep ==
    \/ C_Call \/ T_Run \/ C_Navigate \/ C_FormWait \/ C_ResolveName
    \/ C_FillName \/ C_Category \/ C_Description \/ C_ClickCreate
    \/ C_WizardTry \/ C_WizardMiss \/ C_WaitBegin \/ C_WaitPoll
    \/ C_Extract \/ C_Decide

\* =================================================================
\* run_task_sync: the batch driver
\* =================================================================
\* FacebookPageGenerator.stop(), run by "with ... as generator" on the way out.
StopDriver ==
    /\ driver' = FALSE
    /\ logged_in' = FALSE

\* update_task_status(task_id, st, error_message=msg)
SetStatus(st, msg) ==
    task' = [task EXCEPT !.status = st,
                         !.error_message = IF msg = "" THEN @ ELSE msg]

\* "with FacebookPageGenerator(...) as generator": start() can raise.
R_Start ==
    /\ pc = "r_start"
    /\ \/ /\ driver' = TRUE
          /\ pc' = "r_login"
          /\ UNCHANGED task
       \/ /\ SetStatus("failed", "Failed to start Chrome driver")
          /\ pc' = "r_done"
          /\ UNCHANGED driver
    /\ UNCHANGED <<cfg, cookie_file, i, logged_in, rate_limited, metrics,
                   login_success, lg, att, result, sh, invite_result, calls,
                   fnVars, workers, requests>>

\* "if creator_email and creator_password and not test_mode: login_facebook"
R_Login ==
    /\ pc = "r_login"
    /\ pc' = IF cfg.creds /\ ~cfg.test_mode THEN "l_cookies" ELSE "r_loop"
    /\ UNCHANGED <<cfg, task, cookie_file, i, driver, logged_in, rate_limited,
                   metrics, login_success, lg, att, result, sh, invite_result,
                   calls, fnVars, workers, requests>>

\* A driver that goes on to the pages whatever login_facebook returned.
R_LoginRet_Continues ==
    /\ pc = "r_login_ret"
    /\ pc' = "r_loop"
    /\ UNCHANGED <<task, driver, logged_in>>
    /\ UNCHANGED <<cfg, cookie_file, i, rate_limited, metrics, login_success, lg,
                   att, result, sh, invite_result, calls, fnVars, workers, requests>>

\* "if not login_success: update_task_status(task_id, 'failed'); return"
\* What the browser showed to login_facebook is gone once the call is over.
R_LoginRet ==
    /\ pc = "r_login_ret"
    /\ IF login_success
       THEN /\ pc' = "r_loop"
            /\ lg' = [lg EXCEPT !.url = "none", !.authenticated = FALSE]
            /\ UNCHANGED <<task, driver, logged_in>>
       ELSE /\ SetStatus("failed", "Facebook login failed")
            /\ StopDriver
            /\ pc' = "r_done"
            /\ UNCHANGED lg
    /\ UNCHANGED <<cfg, cookie_file, i, rate_limited, metrics, login_success,
                   att, result, sh, invite_result, calls, fnVars, workers, requests>>

\* task_cancel, a request served while the worker thread runs: "if
\* task['status'] not in ['pending', 'running']: 400", else the status becomes
\* 'cancelled'. It touches nothing else of the task or of the worker.
Cancel ==
    /\ task.status \in {"pending", "running"}
    /\ SetStatus("cancelled", "")
    /\ UNCHANGED <<cfg, cookie_file, pc, i, driver, logged_in, rate_limited,
                   metrics, login_success, lg, att, result, sh, invite_result,
                   calls, fnVars, workers, requests>>

\* A loop that never reads the status of the task.
R_Loop_IgnoresCancel ==
    /\ pc = "r_loop"
    /\ IF i > cfg.num_pages
       THEN /\ StopDriver
            /\ SetStatus("completed", "")
            /\ pc' = "r_done"
            /\ UNCHANGED <<att, calls>>
       ELSE /\ calls' = [calls EXCEPT !.create = @ + 1]
            /\ UNCHANGED att
            /\ pc' = "c_call"
            /\ UNCHANGED <<task, driver, logged_in>>
    /\ UNCHANGED <<cfg, cookie_file, i, rate_limited, metrics, login_success, lg,
                   result, sh, invite_result, fnVars, workers, requests>>

\* Top of "for i in range(1, num_pages + 1)": the cancel check, then the call
\* of create_facebook_page; after the loop, stop() and status 'completed'.
R_Loop ==
    /\ pc = "r_loop"
    /\ IF i > cfg.num_pages \/ task.status = "cancelled"
       THEN /\ StopDriver
            /\ SetStatus("completed", "")
            /\ pc' = "r_done"
            /\ UNCHANGED <<att, calls>>
       ELSE /\ calls' = [calls EXCEPT !.create = @ + 1]
            /\ UNCHANGED att
            /\ pc' = "c_call"
            /\ UNCHANGED <<task, driver, logged_in>>
    /\ UNCHANGED <<cfg, cookie_file, i, rate_limited, metrics, login_success, lg,
                   result, sh, invite_result, fnVars, workers, requests>>

\* A driver that shares whatever the creation attempt returned.
R_AfterCreate_ShareAlways ==
    /\ pc = "c_return"
    /\ task' = IF result.success
               THEN [task EXCEPT !.pages_created = @ + 1]
               ELSE [task EXCEPT !.pages_failed = @ + 1]
    /\ IF cfg.share
       THEN /\ pc' = "s_call"
            /\ sh' = NewShare
            /\ calls' = [calls EXCEPT !.share = @ + 1]
            /\ i' = i
            /\ UNCHANGED result
       ELSE /\ pc' = "r_loop"
            /\ i' = i + 1
            /\ result' = NoResult
            /\ UNCHANGED <<sh, calls>>
    /\ att' = NewAttempt
    /\ UNCHANGED <<cfg, cookie_file, driver, logged_in, rate_limited, metrics,
                   login_success, lg, invite_result, fnVars, workers, requests>>

\* "if result.success: store, count, share ... else: count the failure".
R_AfterCreate ==
    /\ pc = "c_return"
    /\ IF result.success
       THEN /\ task' = [task EXCEPT !.pages_created = @ + 1]
            /\ IF cfg.share
               THEN /\ pc' = "s_call"
                    /\ sh' = NewShare
                    /\ calls' = [calls EXCEPT !.share = @ + 1]
                    /\ i' = i
                    /\ UNCHANGED result
               ELSE /\ pc' = "r_loop"
                    /\ i' = i + 1
                    /\ result' = NoResult
                    /\ UNCHANGED <<sh, calls>>
       ELSE /\ task' = [task EXCEPT !.pages_failed = @ + 1]
            /\ pc' = "r_loop"
            /\ i' = i + 1
            /\ result' = NoResult
            /\ UNCHANGED <<sh, calls>>
    /\ att' = NewAttempt
    /\ UNCHANGED <<cfg, cookie_file, driver, logged_in, rate_limited, metrics,
                   login_success, lg, invite_result, fnVars, workers, requests>>

\* "if invite_result.success: store_invite, shares_sent else: shares_failed".
R_AfterShare ==
    /\ pc = "s_return"
    /\ task' = IF invite_result.success
               THEN [task EXCEPT !.shares_sent = @ + 1]
               ELSE [task EXCEPT !.shares_failed = @ + 1]
    /\ i' = i + 1
    /\ pc' = "r_loop"
    /\ result' = NoResult
    /\ invite_result' = NoResult
    /\ sh' = NewShare
    /\ UNCHANGED <<cfg, cookie_file, driver, logged_in, rate_limited, metrics,
                   login_success, lg, att, calls, fnVars, workers, requests>>

\* =================================================================
\* login_facebook (live mode)
\* =================================================================
loginFrame == <<cfg, task, i, driver, rate_limited, metrics, att, result, sh,
                invite_result, calls, fnOp, fnArg, fnRet, workers, requests>>

\* "return True" / "return False" of login_facebook.
LoginReturns(l, ok) ==
    /\ lg' = [l EXCEPT !.ret = IF ok THEN "true" ELSE "false"]
    /\ login_success' = ok
    /\ pc' = "r_login_ret"

LoginGoes(l, next) ==
    /\ lg' = l
    /\ pc' = next
    /\ UNCHANGED login_success

\* A login that goes to the credentials without looking at the saved session.
L_Cookies_Skipped ==
    /\ pc = "l_cookies"
    /\ LoginGoes(lg, "l_credentials")
    /\ UNCHANGED <<loginFrame, cookie_file, logged_in>>

\* STEP 0: load_cookies(), refresh(), check_if_logged_in(). The session file
\* that is present may or may not load.
L_Cookies ==
    /\ pc = "l_cookies"
    /\ LET l == [lg EXCEPT !.reads = @ + 1]
       IN  IF cookie_file = "absent"
           THEN LoginGoes(l, "l_credentials") /\ UNCHANGED logged_in
           ELSE \/ LoginGoes(l, "l_credentials") /\ UNCHANGED logged_in
                \/ LoginReturns(l, FALSE) /\ UNCHANGED logged_in   \* refresh() raised
                \/ \E dom \in ProbeDoms, g \in BOOLEAN :
                     LET r == check_if_logged_in(driver, logged_in, g, dom)
                     IN  IF r.ret
                         THEN /\ logged_in' = TRUE
                              /\ LoginReturns([l EXCEPT !.restored = TRUE], TRUE)
                         ELSE /\ logged_in' = r.logged_in
                              /\ LoginGoes(l, "l_credentials")
    /\ UNCHANGED <<loginFrame, cookie_file>>

\* STEP 0.5-7: clear the cookies, find and fill email and password, submit.
L_Credentials ==
    /\ pc = "l_credentials"
    /\ LET l == [lg EXCEPT !.credentials = TRUE]
       IN  \/ \E why \in {"exception", "no_email_field", "no_password_field"} :
                LoginReturns(l, FALSE)
           \/ LoginGoes(l, "l_verify")
    /\ UNCHANGED <<loginFrame, cookie_file, logged_in>>

\* Where the browser can be after the form was submitted.
LandingUrls == {"login", "checkpoint", "home"}

\* '"login" in current_url or "checkpoint" in current_url'
OnLoginOrCheckpoint(url) == url \in {"login", "checkpoint"}

\* A login that saves the cookies before it looks at the URL.
L_Verify_SavesFirst ==
    /\ pc = "l_verify"
    /\ \E u \in LandingUrls, auth \in BOOLEAN :
         LET l == [lg EXCEPT !.url = u, !.authenticated = auth, !.writes = @ + 1]
         IN  /\ cookie_file' = "present"
             /\ IF OnLoginOrCheckpoint(u)
                THEN LoginReturns(l, FALSE) /\ UNCHANGED logged_in
                ELSE logged_in' = TRUE /\ LoginReturns(l, TRUE)
    /\ UNCHANGED loginFrame

\* STEP 8-10: settle, dismiss popups, look at the URL, save the cookies. The
\* site decides where the browser lands and whether the session is authenticated.
L_Verify ==
    /\ pc = "l_verify"
    /\ \/ /\ LoginReturns(lg, FALSE)        \* current_url raises
          /\ UNCHANGED <<logged_in, cookie_file>>
       \/ \E u \in LandingUrls, auth \in BOOLEAN :
            LET l == [lg EXCEPT !.url = u, !.authenticated = auth]
            IN  IF OnLoginOrCheckpoint(u)
                THEN /\ LoginReturns(l, FALSE)
                     /\ UNCHANGED <<logged_in, cookie_file>>
                ELSE /\ logged_in' = TRUE
                     /\ \E fault \in SaveFaults :
                          cookie_file' = IF fault \in {"none", "write"}
                                         THEN "present" ELSE cookie_file
                     /\ LoginReturns([l EXCEPT !.writes = @ + 1], TRUE)
    /\ UNCHANGED loginFrame

LoginStep == L_Cookies \/ L_Credentials \/ L_Verify

\* =================================================================
\* share_page_to_profile
\* =================================================================
InviteResult(ok, link, err) ==
    [success |-> ok, invite_link |-> link, error |-> err]

ShareOrder == <<"switch_now", "use_page", "dashboard", "page_access",
                "new_tab", "add_new", "next", "search_input", "search_result",
                "give_access", "password", "confirm", "final">>

\* Steps that are one selector list inside "except Exception: continue".
GuardedClicks == {"switch_now", "use_page", "dashboard", "next",
                  "search_result", "password", "confirm"}

StepName(s) == ShareOrder[s.step]

RECURSIVE SkipFrom_AllNeedInput(_, _)
\* A share that leaves out Give Access as well when the search input is missing.
SkipFrom_AllNeedInput(s, n) ==
    IF ShareOrder[n] \in {"search_result", "give_access"} /\ ~s.person_input
    THEN SkipFrom_AllNeedInput(s, n + 1)
    ELSE IF ShareOrder[n] \in {"password", "confirm"} /\ ~s.submit_clicked
    THEN SkipFrom_AllNeedInput(s, n + 1)
    ELSE n

RECURSIVE SkipFrom(_, _)
\* The next step the code runs from position n: the search result needs the
\* input, the password and Confirm steps need submit_clicked.
SkipFrom(s, n) ==
    IF ShareOrder[n] = "search_result" /\ ~s.person_input THEN SkipFrom(s, n + 1)
    ELSE IF ShareOrder[n] \in {"password", "confirm"} /\ ~s.submit_clicked
    THEN SkipFrom(s, n + 1)
    ELSE n

Attempted(s) == [s EXCEPT !.attempted = @ \cup {StepName(s)}]

Advance(s) == [s EXCEPT !.step = SkipFrom(s, s.step + 1), !.access_elapsed = 0]

shareFrame == <<cfg, task, cookie_file, i, driver, logged_in, rate_limited,
                metrics, login_success, lg, att, result, fnOp, fnArg, fnRet, workers, requests>>

ShareGoes(s) ==
    /\ sh' = s
    /\ pc' = "s_step"
    /\ UNCHANGED <<invite_result, calls>>

ShareReturns(s, res) ==
    /\ sh' = s
    /\ invite_result' = res
    /\ calls' = [calls EXCEPT !.share_ret = @ + 1]
    /\ pc' = "s_return"

\* "except TimeoutException" / "except Exception" of _real_share_to_profile.
ShareExceptResult(kind) ==
    IF kind = "timeout" THEN InviteResult(FALSE, "", ErrTimeout)
    ELSE InviteResult(FALSE, "", ExcText(kind))

ShareFails(s, kind) ==
    ShareReturns([s EXCEPT !.exc = kind], ShareExceptResult(kind))

\* share_page_to_profile, _simulate_share_to_profile, and the logged-in check
\* of _real_share_to_profile.
S_Call ==
    /\ pc = "s_call"
    /\ IF ~driver
       THEN ShareReturns(sh, InviteResult(FALSE, "", ErrDriver))
       ELSE IF cfg.test_mode
       THEN ShareReturns(sh, InviteResult(TRUE,
                "https://facebook.com/pages/invite/id?token=0123456789abcdef", ""))
       ELSE IF ~logged_in
       THEN ShareReturns(sh, InviteResult(FALSE, "", ErrNotLoggedIn))
       ELSE ShareGoes([sh EXCEPT !.step = 1])
    /\ UNCHANGED shareFrame

\* Switch Now, Use Page, Professional dashboard, Next, the search result, the
\* password, Confirm: a hit or a miss, never an exception.
S_Click ==
    /\ pc = "s_step"
    /\ StepName(sh) \in GuardedClicks
    /\ \E hit \in BOOLEAN : ShareGoes(Advance(Attempted(sh)))
    /\ UNCHANGED shareFrame

\* STEP 4: one turn of the 10 second wait for 'Page access'.
S_PageAccess ==
    /\ pc = "s_step"
    /\ StepName(sh) = "page_access"
    /\ IF sh.access_elapsed >= AccessWindow
       THEN ShareGoes(Advance(sh))
       ELSE \E hit \in BOOLEAN :
              IF hit
              THEN ShareGoes(Advance(Attempted(sh)))
              ELSE \E d \in {AccessSleep, AccessSleep + implicit_wait} :
                     ShareGoes([Attempted(sh) EXCEPT
                        !.access_elapsed = Elapse(@, d)])
    /\ UNCHANGED shareFrame

\* STEP 4b: current_window_handle, window_handles, switch_to.window.
S_NewTab ==
    /\ pc = "s_step"
    /\ StepName(sh) = "new_tab"
    /\ \/ \E k \in BrowserExc : ShareFails(Attempted(sh), k)
       \/ ShareGoes(Advance(Attempted(sh)))
    /\ UNCHANGED shareFrame

\* STEP 5 and Give Access: only NoSuchElementException is caught, so a probe or
\* a click that raises ends the share.
S_Unguarded ==
    /\ pc = "s_step"
    /\ StepName(sh) \in {"add_new", "give_access"}
    /\ \/ ShareFails(Attempted(sh), "webdriver")
       \/ \E hit \in BOOLEAN :
            ShareGoes(Advance([Attempted(sh) EXCEPT
               !.submit_clicked = IF StepName(sh) = "give_access" THEN hit ELSE @]))
    /\ UNCHANGED shareFrame

\* STEP 7: the search input; typing into the input found can raise.
S_SearchInput ==
    /\ pc = "s_step"
    /\ StepName(sh) = "search_input"
    /\ \E dom \in SiteDoms :
         IF ResolveFirst(dom) # NoPick
         THEN \/ ShareFails(Attempted(sh), "webdriver")
              \/ ShareGoes(Advance([Attempted(sh) EXCEPT !.person_input = TRUE]))
         ELSE ShareGoes(Advance(Attempted(sh)))
    /\ UNCHANGED shareFrame

\* The result: success on both branches of "if submit_clicked".
S_Final ==
    /\ pc = "s_step"
    /\ StepName(sh) = "final"
    /\ ShareReturns(Attempted(sh), InviteResult(TRUE, "https://facebook.com/id", ""))
    /\ UNCHANGED shareFrame

ShareStep ==
    \/ S_Call \/ S_Click \/ S_PageAccess \/ S_NewTab \/ S_Unguarded
    \/ S_SearchInput \/ S_Final

\* =================================================================
\* The run
\* =================================================================
RunStep ==
    \/ R_Start \/ R_Login \/ R_LoginRet \/ R_Loop \/ R_AfterCreate \/ R_AfterShare
    \/ Cancel

Next == RunStep \/ LoginStep \/ CreateStep \/ ShareStep

Spec == Init /\ [][Next]_vars

\* The worker thread runs as long as it has a step to take.
LiveSpec == Spec /\ WF_vars(Next)

TypeOK ==
    /\ pc \in {"r_start", "r_login", "r_login_ret", "r_loop", "r_done",
               "l_cookies", "l_credentials", "l_verify",
               "c_call", "t_run", "c_navigate", "c_form", "c_resolve_name",
               "c_fill_name", "c_category", "c_description", "c_create",
               "c_wizard", "c_wait_begin", "c_wait", "c_extract", "c_decide",
               "c_return", "s_call", "s_step", "s_return"}
    /\ i \in 1..(NumPages + 1)
    /\ att.visited \subseteq Stages
    /\ driver \in BOOLEAN /\ logged_in \in BOOLEAN /\ rate_limited \in BOOLEAN

\* =================================================================
\* Functions applied on their own: the input is drawn by the initial state,
\* one action applies the function to it.
\* =================================================================
FnInputs ==
    [fn : {"ResolveFirst", "ClickFirst"}, dom : Doms] \cup
    [fn : {"check_if_logged_in"}, hasDriver : BOOLEAN, li : BOOLEAN,
     getRaises : BOOLEAN, dom : ProbeDoms] \cup
    [fn : {"detect_rate_limit"}, hasDriver : BOOLEAN] \cup
    [fn : {"extract_page_id"}, url : UrlParts] \cup
    [fn : {"get_metrics"}, metrics : MetricsRecords] \cup
    [fn : {"load_cookies"}, hasDriver : BOOLEAN, getRaises : BOOLEAN,
     file : Files] \cup
    [fn : {"save_cookies"}, hasDriver : BOOLEAN, jar : Jars,
     file : {NoFile, BadFile, JsonFile(<< >>)}, fault : SaveFaults]

InitFn ==
    /\ cfg = [test_mode |-> FALSE, creds |-> TRUE, share |-> TRUE, num_pages |-> 1]
    /\ cookie_file = "absent"
    /\ InitWorker
    /\ fnOp = "none"
    /\ fnArg \in FnInputs
    /\ fnRet = << >>
    /\ OneWorker

Applies(name, value) ==
    /\ fnOp = "none"
    /\ fnArg.fn = name
    /\ fnOp' = name
    /\ fnRet' = value
    /\ UNCHANGED <<fnArg, runVars, workers, requests>>

F_ResolveFirst == Applies("ResolveFirst", ResolveFirst(fnArg.dom))

F_ClickFirst == Applies("ClickFirst", ClickFirst(fnArg.dom))

F_CheckIfLoggedIn ==
    Applies("check_if_logged_in",
            check_if_logged_in(fnArg.hasDriver, fnArg.li, fnArg.getRaises, fnArg.dom))

\* One call of detect_rate_limit on the generator: the page shows some text, or
\* reading the body raises. Calls follow one another on the same generator.
F_DetectRateLimit ==
    /\ fnArg.fn = "detect_rate_limit"
    /\ metrics.rate_limit_hits < MaxHits
    /\ \E text \in PageTexts, raises \in BOOLEAN :
         LET r == detect_rate_limit(fnArg.hasDriver, raises, text, rate_limited,
                                    metrics.rate_limit_hits)
         IN  /\ rate_limited' = r.rate_limited
             /\ metrics' = [metrics EXCEPT !.rate_limit_hits = r.hits]
             /\ fnOp' = "detect_rate_limit"
             /\ fnRet' = [ret |-> r.ret, text |-> text, raises |-> raises]
    /\ UNCHANGED <<fnArg, cfg, task, cookie_file, pc, i, driver, logged_in,
                   login_success, lg, att, result, sh, invite_result, calls,
                   workers, requests>>

F_LoadCookies ==
    Applies("load_cookies",
            load_cookies(fnArg.hasDriver, fnArg.file, fnArg.getRaises))

\* save_cookies, then load_cookies by a later generator on the file it left.
F_SaveThenLoad ==
    LET saved == save_cookies(fnArg.hasDriver, fnArg.jar, fnArg.file, fnArg.fault)
    IN  Applies("save_cookies",
                [saved |-> saved, loaded |-> load_cookies(TRUE, saved.file, FALSE)])

F_ExtractPageId ==
    Applies("extract_page_id", extract_page_id(UrlOf(fnArg.url)))

F_GetMetrics == Applies("get_metrics", get_metrics(fnArg.metrics))

NextFn ==
    \/ F_ResolveFirst \/ F_ClickFirst \/ F_CheckIfLoggedIn \/ F_DetectRateLimit
    \/ F_LoadCookies \/ F_SaveThenLoad \/ F_ExtractPageId \/ F_GetMetrics

SpecFn == InitFn /\ [][NextFn]_vars

\* =================================================================
\* Several tasks at once: task_start gives each task its own daemon thread
\* running run_task_sync, each with its own FacebookPageGenerator. None is
\* given a cookies_path, so each has self.cookies_path = DEFAULT_COOKIES_PATH.
\* What is followed here is the use each worker makes of that file.
\* =================================================================
Workers == 1..NumWorkers

\* Content of the session file: none, what an earlier run left, or what
\* save_cookies of worker w wrote.
Absent == <<"absent">>
Earlier == <<"earlier">>
WrittenBy(w) == <<"worker", w>>

NewWorker == [pc |-> "pending", session |-> <<"none">>]

InitWorkers ==
    /\ cfg \in [test_mode : BOOLEAN, creds : BOOLEAN, share : {FALSE},
                num_pages : {1}]
    /\ cookie_file \in {Absent, Earlier}
    /\ InitWorker
    /\ InitFnIdle
    /\ workers = [w \in Workers |-> NewWorker]
    /\ requests = << >>

workersFrame == <<cfg, task, pc, i, driver, logged_in, rate_limited, metrics,
                  login_success, lg, att, result, sh, invite_result, calls,
                  fnVars, requests>>

Moves(w, next) == workers' = [workers EXCEPT ![w].pc = next]

\* task_start: the task goes from 'pending' to 'running', the thread starts
\* and builds its generator.
W_Start(w) ==
    /\ workers[w].pc = "pending"
    /\ Moves(w, "r_login")
    /\ UNCHANGED <<cookie_file, workersFrame>>

\* "if creator_email and creator_password and not test_mode: login_facebook"
W_Login(w) ==
    /\ workers[w].pc = "r_login"
    /\ Moves(w, IF cfg.creds /\ ~cfg.test_mode THEN "l_cookies" ELSE "r_loop")
    /\ UNCHANGED <<cookie_file, workersFrame>>

\* load_cookies: "if not os.path.exists(self.cookies_path): return False", else
\* the file's records go into the browser; the restored session is then valid
\* or not.
W_Cookies(w) ==
    /\ workers[w].pc = "l_cookies"
    /\ IF cookie_file = Absent
       THEN Moves(w, "l_credentials")
       ELSE \E valid \in BOOLEAN :
              workers' = [workers EXCEPT
                            ![w].session = cookie_file,
                            ![w].pc = IF valid THEN "r_loop" ELSE "l_credentials"]
    /\ UNCHANGED <<cookie_file, workersFrame>>

W_Credentials(w) ==
    /\ workers[w].pc = "l_credentials"
    /\ Moves(w, "l_verify")
    /\ UNCHANGED <<cookie_file, workersFrame>>

\* STEP 10 of login_facebook: on success save_cookies opens self.cookies_path
\* with 'w' and dumps the browser's cookies; the write can fail.
W_Verify(w) ==
    /\ workers[w].pc = "l_verify"
    /\ \/ /\ Moves(w, "r_done")
          /\ UNCHANGED cookie_file
       \/ /\ workers' = [workers EXCEPT ![w].session = WrittenBy(w),
                                         ![w].pc = "r_loop"]
          /\ \/ cookie_file' = WrittenBy(w)
             \/ UNCHANGED cookie_file
    /\ UNCHANGED workersFrame

\* The pages of the task: nothing of them touches the session file.
W_Pages(w) ==
    /\ workers[w].pc = "r_loop"
    /\ Moves(w, "r_done")
    /\ UNCHANGED <<cookie_file, workersFrame>>

NextWorkers ==
    \E w \in Workers :
        \/ W_Start(w) \/ W_Login(w) \/ W_Cookies(w) \/ W_Credentials(w)
        \/ W_Verify(w) \/ W_Pages(w)

SpecWorkers == InitWorkers /\ [][NextWorkers]_vars

\* =================================================================
\* The requests of one task (views.py): task_start and task_cancel are served
\* by request threads of the web server, each of which reads the task with
\* get_task and then writes with update_task_status, and every task_start
\* that passes its test starts a thread of run_task_sync. The run itself is
\* followed here by its reads and writes of the task record only.
\* =================================================================
NumRequests == 2
Requests == 1..NumRequests

\* A request before it is served: which view, where it is, the status its
\* get_task returned, the status its update_task_status replaced, its answer.
NewRequest(view) ==
    [view |-> view, pc |-> "received", seen |-> "none", replaced |-> "none",
     response |-> "none"]

\* A thread of run_task_sync that task_start has just started.
NewRun == [pc |-> "r_start", i |-> 1]

InitTasks ==
    /\ cfg \in [test_mode : {TRUE}, creds : {FALSE}, share : {FALSE},
                num_pages : 1..NumPages]
    /\ cookie_file = "absent"
    /\ task = NewTask("pending")
    /\ InitThread
    /\ InitFnIdle
    /\ workers = << >>
    /\ requests \in [Requests -> {NewRequest(v) : v \in {"task_start", "task_cancel"}}]

tasksFrame == <<cfg, cookie_file, pc, i, driver, logged_in, rate_limited,
                metrics, login_success, lg, att, result, sh, invite_result,
                fnVars>>

Answers(r, code) ==
    requests' = [requests EXCEPT ![r].pc = "answered", ![r].response = code]

\* update_task_status(task_id, st) of request r, and its answer 200.
Updates(r, st) ==
    /\ task' = [task EXCEPT !.status = st]
    /\ requests' = [requests EXCEPT ![r].pc = "answered", ![r].response = "200",
                                    ![r].replaced = task.status]

\* "task = get_task(task_id)", the first statement of both views.
get_task(r) ==
    /\ requests[r].pc = "received"
    /\ requests' = [requests EXCEPT ![r].pc = "read", ![r].seen = task.status]
    /\ UNCHANGED <<task, workers, calls, tasksFrame>>

\* task_start without the test of the status.
task_start_Unchecked(r) ==
    /\ requests[r].view = "task_start"
    /\ requests[r].pc = "read"
    /\ Updates(r, "running") /\ workers' = Append(workers, NewRun)
    /\ UNCHANGED <<calls, tasksFrame>>

\* task_cancel without the test of the status.
task_cancel_Unchecked(r) ==
    /\ requests[r].view = "task_cancel"
    /\ requests[r].pc = "read"
    /\ Updates(r, "cancelled")
    /\ UNCHANGED <<workers, calls, tasksFrame>>

\* task_start after its read: "if task['status'] != 'pending': return 400",
\* else update_task_status(task_id, 'running') and the thread is started.
task_start(r) ==
    /\ requests[r].view = "task_start"
    /\ requests[r].pc = "read"
    /\ IF requests[r].seen # "pending"
       THEN Answers(r, "400") /\ UNCHANGED <<task, workers>>
       ELSE Updates(r, "running") /\ workers' = Append(workers, NewRun)
    /\ UNCHANGED <<calls, tasksFrame>>

\* task_cancel after its read: "if task['status'] not in ['pending',
\* 'running']: return 400", else update_task_status(task_id, 'cancelled').
task_cancel(r) ==
    /\ requests[r].view = "task_cancel"
    /\ requests[r].pc = "read"
    /\ IF requests[r].seen \notin {"pending", "running"}
       THEN Answers(r, "400") /\ UNCHANGED task
       ELSE Updates(r, "cancelled")
    /\ UNCHANGED <<workers, calls, tasksFrame>>

Runs(w, next) == workers' = [workers EXCEPT ![w].pc = next]

\* run_task_sync up to its loop: the generator starts and logs in, or the
\* task is set 'failed' (login refused, or an exception of the start).
run_begin(w) ==
    /\ workers[w].pc = "r_start"
    /\ \/ Runs(w, "r_loop") /\ UNCHANGED task
       \/ Runs(w, "r_done") /\ task' = [task EXCEPT !.status = "failed"]
    /\ UNCHANGED <<requests, calls, tasksFrame>>

\* The top of the loop: the range is used up or get_task shows 'cancelled'
\* and the run goes on to update_task_status(task_id, 'completed'); else
\* create_facebook_page is called.
run_loop(w) ==
    /\ workers[w].pc = "r_loop"
    /\ IF workers[w].i > cfg.num_pages \/ task.status = "cancelled"
       THEN /\ Runs(w, "r_done")
            /\ task' = [task EXCEPT !.status = "completed"]
            /\ UNCHANGED calls
       ELSE /\ Runs(w, "c_call")
            /\ calls' = [calls EXCEPT !.create = @ + 1]
            /\ UNCHANGED task
    /\ UNCHANGED <<requests, tasksFrame>>

\* The result of the attempt: increment_task_counter of pages_created or of
\* pages_failed, or an exception that "except Exception" turns into 'failed'.
run_attempt(w) ==
    /\ workers[w].pc = "c_call"
    /\ \/ \E success \in BOOLEAN :
            /\ task' = IF success
                       THEN [task EXCEPT !.pages_created = @ + 1]
                       ELSE [task EXCEPT !.pages_failed = @ + 1]
            /\ workers' = [workers EXCEPT ![w].pc = "r_loop", ![w].i = @ + 1]
       \/ /\ Runs(w, "r_done")
          /\ task' = [task EXCEPT !.status = "failed"]
    /\ calls' = [calls EXCEPT !.create_ret = @ + 1]
    /\ UNCHANGED <<requests, tasksFrame>>

NextTasks ==
    \/ \E r \in Requests : get_task(r)
    \/ \E r \in Requests : task_start(r)
    \/ \E r \in Requests : task_cancel(r)
    \/ \E w \in DOMAIN workers : run_begin(w)
    \/ \E w \in DOMAIN workers : run_loop(w)
    \/ \E w \in DOMAIN workers : run_attempt(w)

SpecTasks == InitTasks /\ [][NextTasks]_vars

\* round(n / d, 0) as Python rounds: to the nearest, a tie to the even one.
Round(n, d) ==
    LET q == n \div d
        r == n % d
    IN  IF 2 * r < d THEN q
        ELSE IF 2 * r > d THEN q + 1
        ELSE IF q % 2 = 0 THEN q ELSE q + 1

\* tasks_list / task_detail: "round(((created + failed) / total) * 100, 1) if
\* total > 0 else 0", in tenths of a percent.
progress(created, failed, total) ==
    IF total > 0 THEN Round((created + failed) * 1000, total) ELSE 0

\* =================================================================
\* Properties
\* =================================================================
Returned == pc = "c_return"
Decided == Returned /\ "decide" \in att.visited

\* C1: a live creation attempt that reaches the final decision returns
\* success=true exactly when the Create Page control was clicked and the
\* confirmation was observed; either flag alone gives success=false.
C1_SuccessIffClickedAndConfirmed ==
    Decided => (result.success <=> (att.create_clicked /\ att.page_url_found))

C1_Witness ==
    Decided /\ result.success /\ att.create_clicked /\ att.page_url_found

\* C2: an attempt that clicked Create Page and saw no confirmation fails with
\* the 'not confirmed' error, and an attempt that never clicked fails with the
\* 'could not click' error (browser exceptions aside).
C2_FailureReasonsDistinguish ==
    (Returned /\ "await_confirmation" \in att.visited /\ att.exc \notin BrowserExc)
        => /\ (att.create_clicked /\ ~att.page_url_found)
                => (~result.success /\ result.error = ErrNotConfirmed)
           /\ ~att.create_clicked
                => (~result.success /\ result.error = ErrNotClicked)

\* C3: a poll of the confirmation wait on which no indicator holds is followed
\* by another poll, up to the ceiling: the wait ends the attempt only when a
\* browser call raised, otherwise it goes on to the identifier extraction.
C3_PollsUntilIndicatorOrCeiling ==
    (Returned /\ att.polls > 0 /\ "extract_id" \notin att.visited)
        => att.exc \in BrowserExc

WellFormed(r) == (r.success /\ r.error = "") \/ (~r.success /\ r.error # "")

\* C4: every create_facebook_page and share_page_to_profile call returns one
\* result; an exception inside the attempt becomes a result with success=false
\* and a non-empty error; every result is (success, no error) or (failure, error).
C4_EveryCallReturnsOneResult ==
    /\ calls.create_ret <= calls.create /\ calls.create <= calls.create_ret + 1
    /\ calls.share_ret <= calls.share /\ calls.share <= calls.share_ret + 1
    /\ Returned =>
         /\ calls.create_ret = calls.create
         /\ WellFormed(result)
         /\ att.exc # "none" => (~result.success /\ result.error # "")
    /\ pc = "s_return" =>
         /\ calls.share_ret = calls.share
         /\ WellFormed(invite_result)
         /\ sh.exc # "none" => (~invite_result.success /\ invite_result.error # "")

C4_Witness == Returned /\ att.exc # "none" /\ ~result.success

Skippable(kind) == kind \in {"hidden", "disabled"}

\* The strategy yields a pick: its first element that is not skipped is
\* displayed and enabled.
Yields(ans) ==
    /\ ~ans.raises
    /\ \E j \in 1..Len(ans.elems) :
         /\ ans.elems[j] \in {"ok", "blocked"}
         /\ \A m \in 1..(j - 1) : Skippable(ans.elems[m])

\* The same for a pick that is clicked: the click must not raise.
YieldsClick(ans) ==
    /\ ~ans.raises
    /\ \E j \in 1..Len(ans.elems) :
         /\ ans.elems[j] = "ok"
         /\ \A m \in 1..(j - 1) : Skippable(ans.elems[m])

FirstOf(K) == CHOOSE k \in K : \A m \in K : k <= m

\* C6: resolution over an ordered strategy list returns the element of the
\* earliest declared strategy that yields a displayed and enabled match;
\* strategies that find nothing or raise are skipped; nothing is returned only
\* when no strategy yields.
C6_FirstMatchingStrategyWins ==
    /\ fnOp = "ResolveFirst" =>
         LET dom == fnArg.dom
             K == {k \in 1..Len(dom) : Yields(dom[k])}
         IN  IF K = {} THEN fnRet = NoPick
             ELSE /\ fnRet # NoPick
                  /\ fnRet[1] = FirstOf(K)
                  /\ dom[fnRet[1]].elems[fnRet[2]] \in {"ok", "blocked"}
                  /\ \A m \in 1..(fnRet[2] - 1) : Skippable(dom[fnRet[1]].elems[m])
    /\ fnOp = "ClickFirst" =>
         LET dom == fnArg.dom
             K == {k \in 1..Len(dom) : YieldsClick(dom[k])}
         IN  IF K = {} THEN fnRet = NoPick
             ELSE /\ fnRet # NoPick
                  /\ fnRet[1] = FirstOf(K)
                  /\ dom[fnRet[1]].elems[fnRet[2]] = "ok"

\* Two strategies match and an earlier one matched nothing or raised.
C6_Witness ==
    /\ fnOp = "ResolveFirst"
    /\ Len(fnArg.dom) >= 2
    /\ Yields(fnArg.dom[1]) /\ Yields(fnArg.dom[2])
    /\ fnRet[1] = 1

LaterStages == {"fill_name", "category", "description", "create_click",
                "wizard", "await_confirmation", "extract_id", "decide"}

\* C7: when no page-name strategy resolves, the attempt ends at once as a
\* failure with error "Could not find page name input field" and runs none of
\* the later stages.
C7_NoNameInputEndsAttempt ==
    (Returned /\ "resolve_name" \in att.visited /\ ~att.page_name_input)
        => /\ ~result.success
           /\ result.error = ErrNoNameInput
           /\ att.visited \cap LaterStages = {}

Checked == fnOp = "check_if_logged_in"
LoginVisible == \E k \in 1..NumLoginIndicators : fnArg.dom.login[k] = "visible"
AuthVisible == \E k \in 1..NumLoggedInIndicators : fnArg.dom.auth[k] = "visible"

\* C8: check_if_logged_in returns false whenever a login indicator is visible,
\* whatever the authenticated indicators show; it then probes no authenticated
\* indicator and does not assign self.logged_in.
C8_LoginFormTakesPrecedence ==
    (Checked /\ LoginVisible)
        => /\ fnRet.ret = FALSE
           /\ fnRet.authProbed = 0
           /\ fnRet.logged_in = fnArg.li

C8_Witness ==
    /\ Checked /\ fnArg.hasDriver /\ ~fnArg.getRaises
    /\ LoginVisible /\ AuthVisible
    /\ fnRet.ret = FALSE

\* Some probe that was made raised (or the navigation did).
ProbeRaised ==
    \/ fnArg.getRaises
    \/ \E k \in 1..fnRet.loginProbed : fnArg.dom.login[k] = "error"
    \/ \E k \in 1..fnRet.authProbed : fnArg.dom.auth[k] = "error"

\* C9: check_if_logged_in returns false when neither indicator set matches,
\* when there is no driver, and when a probe raises; it returns true only when
\* no login indicator is visible and an authenticated indicator is visible.
C9_ConservativeDefault ==
    Checked =>
        /\ ~fnArg.hasDriver => ~fnRet.ret
        /\ (~LoginVisible /\ ~AuthVisible) => ~fnRet.ret
        /\ (fnArg.hasDriver /\ ProbeRaised) => ~fnRet.ret
        /\ fnRet.ret => (~LoginVisible /\ AuthVisible /\ fnRet.logged_in)

C9_Witness ==
    /\ Checked /\ fnArg.hasDriver /\ ~fnArg.getRaises
    /\ ~LoginVisible /\ ~AuthVisible
    /\ \A k \in 1..NumLoginIndicators : fnArg.dom.login[k] # "error"
    /\ \A k \in 1..NumLoggedInIndicators : fnArg.dom.auth[k] # "error"
    /\ fnRet.ret = FALSE

\* C10: when the page showed a hostile-response phrase during a creation
\* attempt, the workflow has run detect_rate_limit and rate_limited is true by
\* the end of the attempt.
C10_HostilePageSetsFlag ==
    (Returned /\ att.hostile) => rate_limited

Detecting == fnArg.fn = "detect_rate_limit"

\* C11: a detect_rate_limit call that finds a phrase sets rate_limited and adds
\* exactly 1 to rate_limit_hits; a call that finds none changes neither; the
\* flag is never reset and the counter never decreases.
C11_FlagStickyHitsCounted ==
    [][Detecting =>
         /\ rate_limited => rate_limited'
         /\ metrics'.rate_limit_hits >= metrics.rate_limit_hits
         /\ fnRet'.ret =>
              /\ rate_limited'
              /\ metrics'.rate_limit_hits = metrics.rate_limit_hits + 1
         /\ ~fnRet'.ret =>
              /\ rate_limited' = rate_limited
              /\ metrics'.rate_limit_hits = metrics.rate_limit_hits]_vars

\* A page without a phrase, seen after a hit: the flag is still set.
C11_Witness ==
    /\ fnOp = "detect_rate_limit" /\ fnArg.hasDriver
    /\ ~fnRet.raises /\ ~fnRet.ret
    /\ rate_limited /\ metrics.rate_limit_hits = 1

SameLetter(a, b) ==
    \/ a = b
    \/ \E k \in Letters : {a, b} = {ascii_lowercase[k], ascii_uppercase[k]}

\* The text holds a phrase of the vocabulary, letter case aside.
HoldsPhrase(text) ==
    \E p \in Phrases : \E o \in 0..(Len(text) - Len(p)) :
        \A j \in 1..Len(p) : SameLetter(text[o + j], p[j])

\* C12: detect_rate_limit, given the body text of the page, returns true exactly
\* when the text contains a phrase of the vocabulary in any letter case.
C12_FlagsExactlyPhraseTexts ==
    (fnOp = "detect_rate_limit" /\ fnArg.hasDriver /\ ~fnRet.raises)
        => (fnRet.ret <=> HoldsPhrase(fnRet.text))

\* A phrase not in lower case is flagged.
C12_Witness ==
    /\ fnOp = "detect_rate_limit" /\ fnArg.hasDriver /\ ~fnRet.raises
    /\ fnRet.ret
    /\ fnRet.text # lower(fnRet.text)

Loaded == fnOp = "load_cookies" /\ fnArg.hasDriver /\ ~fnArg.getRaises
                /\ fnArg.file.kind = "json"

\* A record of the file that can be restored: its expiry, if any, is a number
\* and the browser takes it.
ValidRecord(c) == c.expiry[1] \in {"absent", "number"} /\ ~Rejected(c)

\* C13: an invalid record of the session file (one the browser rejects, or one
\* whose expiry cannot be made an integer) is skipped: load_cookies adds every
\* valid record, in order, and reports the session as loaded.
C13_InvalidRecordSkipped ==
    Loaded =>
        /\ fnRet.ret
        /\ Len(fnRet.added) = Len(SelectSeq(fnArg.file.records, ValidRecord))
        /\ \A k \in 1..Len(fnRet.added) :
             fnRet.added[k].name = SelectSeq(fnArg.file.records, ValidRecord)[k].name

SaveLoaded == fnOp = "save_cookies" /\ fnRet.saved.ret

\* C14: load_cookies after save_cookies adds the saved cookies in the saved
\* order, each without sameSite and with an integer expiry, whatever the file
\* held before; load_cookies returns false on an absent or unparsable file.
C14_SessionRoundTrip ==
    /\ SaveLoaded =>
         /\ fnRet.loaded.ret
         /\ Len(fnRet.loaded.added) = Len(fnArg.jar)
         /\ \A k \in 1..Len(fnArg.jar) :
              LET c == fnArg.jar[k]
                  r == fnRet.loaded.added[k]
              IN  /\ r.name = c.name /\ r.domain = c.domain
                  /\ r.sameSite = "absent"
                  /\ r.expiry[1] \in {"absent", "int"}
                  /\ (c.expiry[1] = "absent") <=> (r.expiry[1] = "absent")
                  /\ c.expiry[1] # "absent" => r.expiry[2] = c.expiry[2]
    /\ (fnOp = "load_cookies" /\ fnArg.file.kind \in {"absent", "garbage"})
         => (~fnRet.ret /\ fnRet.added = << >>)

\* Two cookies, the first with sameSite and a fractional expiry, saved over an
\* earlier file and loaded again.
C14_Witness ==
    /\ SaveLoaded
    /\ fnArg.file.kind # "absent"
    /\ Len(fnArg.jar) = 2
    /\ fnArg.jar[1].sameSite = "Lax" /\ fnArg.jar[1].expiry[1] = "float"
    /\ fnArg.jar[1].name # fnArg.jar[2].name
    /\ Len(fnRet.loaded.added) = 2

\* C15: one login_facebook call reads the session file at most once, before
\* any credential entry, and writes it at most once, only when the login has
\* succeeded; a call that returns false leaves the file alone; a test-mode run
\* neither reads nor writes it.
C15_SessionFileReadOnceWrittenOnSuccess ==
    [][/\ lg'.reads <= 1 /\ lg'.writes <= 1
       /\ lg'.reads > lg.reads => ~lg.credentials
       /\ lg'.writes > lg.writes => (lg'.ret = "true" /\ logged_in')
       /\ cookie_file' # cookie_file => lg'.writes > lg.writes
       /\ lg'.ret = "false" => lg'.writes = 0
       /\ cfg.test_mode => (lg'.reads = 0 /\ lg'.writes = 0)]_vars

C15_Witness ==
    /\ pc = "r_login_ret"
    /\ lg.reads = 1 /\ lg.credentials /\ lg.writes = 1 /\ lg.ret = "true"
    /\ cookie_file = "present"

\* C16: login_facebook tries the saved session and check_if_logged_in first;
\* credentials are entered only after that failed; a restored session that is
\* authenticated returns true with logged_in set and no credential entry.
C16_RestoreBeforeCredentials ==
    /\ lg.credentials => (lg.reads = 1 /\ ~lg.restored)
    /\ lg.restored => (lg.ret = "true" /\ ~lg.credentials /\ login_success)
    /\ (lg.restored /\ pc = "r_login_ret") => logged_in

C16_Witness == pc = "r_login_ret" /\ lg.restored /\ logged_in

\* C17: after the credentials were submitted login_facebook returns true, and
\* sets logged_in, only if the session is authenticated.
C17_SuccessOnlyIfAuthenticated ==
    (pc = "r_login_ret" /\ lg.credentials /\ lg.url # "none")
        => /\ lg.ret = "true" => lg.authenticated
           /\ ~lg.authenticated => (lg.ret = "false" /\ ~logged_in)

\* C18: when login_facebook returned false the run starts no creation and no
\* share attempt, and ends with status 'failed' and an error message, never
\* 'completed'.
C18_LoginFailureAbortsRun ==
    lg.ret = "false" =>
        /\ calls.create = 0 /\ calls.share = 0
        /\ task.status # "completed"
        /\ pc = "r_done" => (task.status = "failed" /\ task.error_message # "")

C18_Witness == lg.ret = "false" /\ pc = "r_done" /\ lg.credentials

\* Position of a workflow stage in the order of the attempt; 0 outside it.
StageRank(p) ==
    CASE p = "c_navigate" -> 1
      [] p \in {"c_form", "c_resolve_name", "c_fill_name", "c_category",
                "c_description"} -> 2
      [] p = "c_create" -> 3
      [] p = "c_wizard" -> 4
      [] p \in {"c_wait_begin", "c_wait"} -> 5
      [] p \in {"c_extract", "c_decide"} -> 6
      [] p = "c_return" -> 7
      [] OTHER -> 0

\* C19: inside one creation attempt the stages follow one another forward
\* (navigation, form, submit, wizard, confirmation wait, extraction, result):
\* no step goes from a stage to an earlier one; any stage may go to the result.
C19_StagesForward ==
    [][(StageRank(pc) \in 1..6 /\ StageRank(pc') > 0)
          => StageRank(pc') >= StageRank(pc)]_vars

\* An attempt that went through every stage, clicking every wizard button.
C19_Witness ==
    Decided /\ att.visited = Stages /\ att.wizard_clicks = NumWizardSteps

Sharing == pc \in {"s_call", "s_step", "s_return"}

\* C20: a share is started only for a creation attempt that returned success,
\* and only when a grantee profile is configured; at most one share per page
\* created; invites are counted only for shares made.
C20_ShareOnlyAfterSuccess ==
    /\ Sharing => (result # NoResult /\ result.success /\ cfg.share)
    /\ calls.share <= task.pages_created
    /\ task.shares_sent + task.shares_failed <= calls.share
    /\ ~cfg.share => calls.share = 0

\* A page shared after an earlier attempt of the run failed and was not shared.
C20_Witness ==
    /\ pc = "s_return" /\ invite_result.success
    /\ task.pages_failed = 1 /\ task.pages_created = 1 /\ calls.share = 1

\* C21: cancellation is looked at only at the top of a loop iteration. Once the
\* status reads 'cancelled' there, the driver leaves the loop and starts no
\* further creation or share. Anywhere else a cancellation changes nothing of
\* the worker: the attempt in progress and the share that follows it run to
\* their return, and each result is counted on the task.
InProgress ==
    pc \in {"c_call", "t_run", "c_navigate", "c_form", "c_resolve_name",
            "c_fill_name", "c_category", "c_description", "c_create",
            "c_wizard", "c_wait_begin", "c_wait", "c_extract", "c_decide",
            "c_return", "s_call", "s_step", "s_return"}

C21_CancelAtAttemptBoundary ==
    [][/\ (pc = "r_loop" /\ task.status = "cancelled")
            => (pc' = "r_done" /\ calls' = calls)
       /\ (InProgress /\ task.status = "cancelled" /\ pc' # pc)
            => /\ InProgress' \/ pc' = "r_loop"
               /\ task'.status = "cancelled"
               /\ pc' = "r_loop" =>
                    /\ task'.pages_created + task'.pages_failed = calls.create
                    /\ task'.shares_sent + task'.shares_failed = calls.share
                    /\ calls.create_ret = calls.create
                    /\ calls.share_ret = calls.share
       /\ (task.status = "cancelled" /\ pc = "c_return" /\ result.success
                                     /\ cfg.share)
            => pc' \in {"c_return", "s_call"}]_vars

\* Cancelled during the first of two attempts: the attempt and its share were
\* finished and counted, and the loop is about to stop before the second.
C21_Witness ==
    /\ pc = "r_loop"
    /\ task.status = "cancelled"
    /\ i = 2
    /\ cfg.num_pages = 2
    /\ task.pages_created = 1
    /\ task.shares_sent = 1

\* C22: concurrent workers share no mutable state: no worker reads, and no
\* worker overwrites, a session file written by another worker that is still
\* running; the session a worker persists is its own.
Running(w) == workers[w].pc \notin {"pending", "r_done"}

OfRunningOther(w, file) ==
    \E v \in Workers \ {w} : file = WrittenBy(v) /\ Running(v)

C22_WorkersShareNoFile ==
    [][\A w \in Workers :
         /\ (workers[w].pc = "l_cookies" /\ workers'[w].pc # "l_cookies")
              => ~OfRunningOther(w, cookie_file)
         /\ (cookie_file' = WrittenBy(w) /\ cookie_file' # cookie_file)
              => ~OfRunningOther(w, cookie_file)]_vars

\* C23: in simulated mode every attempt returns one result and is counted once:
\* pages_created is the number of success results, errors the number of failure
\* results, their sum the number of attempts; a run of n attempts that is not
\* cut short yields n results, all successes when no submission failed.
SuccessResults ==
    task.pages_created + (IF pc = "c_return" /\ result.success THEN 1 ELSE 0)

FailureResults ==
    task.pages_failed + (IF pc = "c_return" /\ ~result.success THEN 1 ELSE 0)

LoopRanOut == pc = "r_done" /\ i > cfg.num_pages

C23_SimulatedAttemptsCounted ==
    cfg.test_mode =>
        /\ metrics.pages_created = SuccessResults
        /\ metrics.errors = FailureResults
        /\ metrics.pages_created + metrics.errors = calls.create_ret
        /\ calls.create - calls.create_ret = (IF pc = "t_run" \/ pc = "c_call" THEN 1 ELSE 0)
        /\ LoopRanOut => calls.create_ret = cfg.num_pages
        /\ (LoopRanOut /\ metrics.errors = 0)
              => (metrics.pages_created = cfg.num_pages /\ task.pages_failed = 0)

C23_Witness ==
    /\ cfg.test_mode
    /\ LoopRanOut
    /\ cfg.num_pages = NumPages
    /\ metrics.pages_created = 1
    /\ metrics.errors = NumPages - 1

\* C24: the simulated creation path always returns success=true with a
\* non-empty identifier and the URL built from that identifier; and in
\* simulated mode nothing calls detect_rate_limit or changes rate_limited or
\* rate_limit_hits.
C24_SimulatedAlwaysValid ==
    cfg.test_mode =>
        /\ ~rate_limited /\ metrics.rate_limit_hits = 0
        /\ (pc = "c_return") =>
              /\ result.success
              /\ result.page_id # ""
              /\ result.page_url = TestPageUrl(result.page_id)

\* C25: a batch whose attempt loop ended without an exception has final status
\* 'failed' exactly when it had no success and at least one failure, and
\* 'completed' otherwise; run_task_sync ends with the status create_pages_task
\* would give to the same counts.
C25_FailedIffNoSuccess ==
    (pc = "r_done" /\ task.error_message = "")
        => /\ task.status = final_status(task.pages_created, task.pages_failed)
           /\ task.status = "failed"
                <=> (task.pages_created = 0 /\ task.pages_failed > 0)

\* C26: the identifier comes from the first rule that matches, in the order
\* numeric id parameter, numeric first path segment, trailing path segment with
\* the query removed; a rule that does not match leaves the choice to the rules
\* after it.
AllDigits(chars) == chars # << >> /\ \A k \in 1..Len(chars) : chars[k] \in Digits

ByPriority(parts) ==
    IF parts.query.name = <<"i", "d">> /\ AllDigits(parts.query.value)
    THEN parts.query.value
    ELSE IF AllDigits(parts.path[1]) THEN parts.path[1]
    ELSE parts.path[Len(parts.path)]

C26_FirstMatchingRuleWins ==
    fnOp = "extract_page_id" => fnRet = ByPriority(fnArg.url)

\* C27: get_metrics leaves the metrics as they were and never divides by zero;
\* avg_time_per_page is total_time / pages_created, or 0 when nothing was
\* created; success_rate is pages_created / (pages_created + errors) * 100, or
\* 0 when nothing was attempted, and lies between 0 and 100.
IsValue(q, a, b) == q.den > 0 /\ q.num * b = a * q.den

C27_SnapshotDerived ==
    fnOp = "get_metrics" =>
        LET m == fnArg.metrics
            s == fnRet.snapshot
            attempts == m.pages_created + m.errors
        IN  /\ ~fnRet.raises
            /\ fnRet.metrics = m
            /\ s.pages_created = m.pages_created /\ s.errors = m.errors
            /\ s.total_time = m.total_time
            /\ s.rate_limit_hits = m.rate_limit_hits
            /\ IF m.pages_created = 0
               THEN IsValue(s.avg_time_per_page, 0, 1)
               ELSE IsValue(s.avg_time_per_page, m.total_time, m.pages_created)
            /\ IF attempts = 0
               THEN IsValue(s.success_rate, 0, 1)
               ELSE IsValue(s.success_rate, 100 * m.pages_created, attempts)
            /\ 0 <= s.success_rate.num
            /\ s.success_rate.num <= 100 * s.success_rate.den

\* Errors only: pages_created is 0 while attempts were made.
C27_Witness ==
    /\ fnOp = "get_metrics"
    /\ fnArg.metrics.pages_created = 0
    /\ fnArg.metrics.errors > 0
    /\ fnArg.metrics.total_time > 0

\* C28: the wizard goes through its four buttons (Next, Next, Skip, Done) once
\* each and in order. A button is tried for at most 3 seconds (a last sleep of
\* the loop may end just after them) and is clicked at most once; a button
\* that is not found is passed over without ending the attempt. After the
\* fourth button the attempt goes on to the confirmation wait, with 0 to 4
\* clicks made.
StepLeft == pc' # "c_wizard" \/ att'.step_num # att.step_num

C28_WizardOrderedBestEffort ==
    [][pc = "c_wizard" =>
         /\ att.step_num \in 1..NumWizardSteps
         /\ pc' \in {"c_wizard", "c_wait_begin"}
         /\ pc' = "c_wait_begin" => att.step_num = NumWizardSteps
         /\ pc' = "c_wizard" => att'.step_num \in {att.step_num, att.step_num + 1}
         /\ att'.wizard_clicks \in {att.wizard_clicks, att.wizard_clicks + 1}
         /\ att'.wizard_clicks > att.wizard_clicks
              => (att.step_elapsed < WizardWindow /\ StepLeft)
         /\ (StepLeft /\ att'.wizard_clicks = att.wizard_clicks)
              => att.step_elapsed >= WizardWindow
         /\ att'.wizard_clicks <= att.step_num
         /\ att'.step_elapsed <= WizardWindow + WizardSleep
         /\ att'.exc = "none"]_vars

\* C29: once the page-name input is resolved and filled, a missing category
\* input and a missing or unusable description field never end the attempt:
\* the attempt goes on to the Create Page click, which is always tried.
C29_OptionalFieldsBestEffort ==
    [][/\ (pc = "c_category" /\ pc' # pc /\ ~att'.category_input)
            => (pc' = "c_description" /\ att'.exc = "none")
       /\ (pc = "c_description" /\ pc' # pc)
            => (pc' = "c_create" /\ att'.exc = "none"
                /\ att'.category_input = att.category_input)
       /\ (pc = "c_create" /\ pc' # pc)
            => ("create_click" \in att'.visited /\ att.page_name_input)]_vars

\* On the Create Page click with no category input and an unusable description.
C29_Witness ==
    /\ pc = "c_create"
    /\ att.page_name_input
    /\ ~att.category_input
    /\ att.desc_input = "unusable"

\* Steps of the share that come before position n.
StepsBefore(n) == {ShareOrder[k] : k \in 1..(n - 1)}

UpToGiveAccess ==
    {"switch_now", "use_page", "dashboard", "page_access", "new_tab", "add_new",
     "next", "search_input", "search_result", "give_access"}

C31_SuccessNeedsGiveAccess ==
    (pc = "s_return" /\ ~cfg.test_mode) =>
        /\ invite_result.success => sh.submit_clicked
        /\ ~sh.submit_clicked =>
              (~invite_result.success /\ invite_result.error # "")

\* -----------------------------------------------------------------
\* C32: a task whose status is 'cancelled' keeps that status: no step of the
\* run writes 'running', 'completed' or 'failed' over it.
C32_CancelledStays ==
    [][task.status = "cancelled" => task'.status = "cancelled"]_vars

\* -----------------------------------------------------------------
\* C38: in live mode the generator's pages_created and errors add up to the
\* number of create_facebook_page calls that have returned.
C38_EveryReturnCounted ==
    ~cfg.test_mode =>
        metrics.pages_created + metrics.errors = calls.create_ret

\* -----------------------------------------------------------------
\* C39: a live creation attempt that returns success = TRUE returns a
\* page_id that is not empty.
C39_SuccessHasPageId ==
    (pc = "c_return" /\ ~cfg.test_mode /\ result.success) =>
        result.page_id # ""

\* -----------------------------------------------------------------
\* C33: task_start sets the task 'running' and starts one run exactly when
\* the status it read is 'pending'; for any other status it answers with an
\* error, changes nothing and starts nothing. A task_start that reads the task
\* after another task_start was answered with success never reads 'pending',
\* and the runs started are as many as the requests answered with success.
Served(r, view) ==
    /\ requests[r].view = view
    /\ requests[r].pc = "read"
    /\ requests'[r].pc = "answered"

Started == {r \in Requests : requests[r].view = "task_start"
                             /\ requests[r].response = "200"}

C33_StartOnlyFromPending ==
    [][/\ \A r \in Requests :
            /\ Served(r, "task_start") =>
                 IF requests[r].seen = "pending"
                 THEN /\ task' = [task EXCEPT !.status = "running"]
                      /\ Len(workers') = Len(workers) + 1
                      /\ requests'[r].response = "200"
                 ELSE /\ task' = task
                      /\ workers' = workers
                      /\ requests'[r].response = "400"
            /\ ( /\ requests[r].view = "task_start"
                 /\ requests[r].pc = "received"
                 /\ requests'[r].pc = "read"
                 /\ Started # {} ) => requests'[r].seen # "pending"
       /\ Len(workers') = Cardinality({r \in Requests :
                              requests'[r].view = "task_start"
                              /\ requests'[r].response = "200"})
      ]_vars

\* One task_start was accepted and a later one refused.
C33_Witness ==
    \E r1, r2 \in Requests :
        /\ requests[r1].view = "task_start" /\ requests[r1].response = "200"
        /\ requests[r2].view = "task_start" /\ requests[r2].response = "400"
        /\ requests[r2].seen = "running"
        /\ Len(workers) = 1

\* -----------------------------------------------------------------
\* C34: task_cancel sets the status 'cancelled' only when the status it read
\* is 'pending' or 'running', and then changes nothing else; for a task that
\* is completed, failed or cancelled it answers with an error and leaves the
\* status and the counters as they are. A status becomes 'cancelled' by no
\* other step.
C34_CancelOnlyWhenActive ==
    [][/\ \A r \in Requests :
            Served(r, "task_cancel") =>
                /\ workers' = workers
                /\ IF requests[r].seen \in {"pending", "running"}
                   THEN /\ task' = [task EXCEPT !.status = "cancelled"]
                        /\ requests'[r].response = "200"
                   ELSE /\ task' = task
                        /\ requests'[r].response = "400"
       /\ (task.status # "cancelled" /\ task'.status = "cancelled") =>
             \E r \in Requests :
                 /\ Served(r, "task_cancel")
                 /\ requests[r].seen \in {"pending", "running"}
      ]_vars

\* One task_cancel was accepted and a later one, which read 'cancelled',
\* refused.
C34_Witness ==
    \E r1, r2 \in Requests :
        /\ requests[r1].view = "task_cancel" /\ requests[r1].response = "200"
        /\ requests[r2].view = "task_cancel" /\ requests[r2].response = "400"
        /\ requests[r2].seen = "cancelled"
        /\ task.status = "cancelled"

\* -----------------------------------------------------------------
\* C35: whatever the interleaving of the task_start requests of a pending
\* task, at most one run is started.
C35_AtMostOneRun == Len(workers) <= 1

\* -----------------------------------------------------------------
\* C36: a task that task_cancel cancelled while it was still 'pending' has no
\* creation attempt executed.
CancelledWhilePending ==
    \E r \in Requests : /\ requests[r].view = "task_cancel"
                        /\ requests[r].replaced = "pending"

C36_CancelledPendingNeverRuns == CancelledWhilePending => calls.create = 0

\* -----------------------------------------------------------------
\* C37: pages_created + pages_failed never exceeds num_pages, so the progress
\* that tasks_list and task_detail report never exceeds 100.
C37_CountersWithinTotal ==
    /\ task.pages_created + task.pages_failed <= cfg.num_pages
    /\ progress(task.pages_created, task.pages_failed, cfg.num_pages) <= 1000

====
